---- MODULE Spec2Model ----
(***************************************************************************)
(* Model of catalogfs_lister.py: the CFSFile record, the text codec        *)
(* (write_cfsfile / read_cfsfile with the current and the two legacy       *)
(* formats) and process_one_file.                                          *)
(*                                                                         *)
(* Text is a sequence of one-character strings.  Positions are Python's    *)
(* 0-based indexes, so At(s, i) is s[i].  The NUL character has no TLA+    *)
(* escape and is written NUL.                                              *)
(***************************************************************************)
EXTENDS Integers, Sequences, FiniteSets, TLC

\* ------------------------------------------------------------------------
\* Bounds of the model
\* ------------------------------------------------------------------------
MaxLines == 3        \* body lines of a record text that Init builds
MaxPopulated == 1    \* populated fields of a partially filled Record
MaxPad == 2          \* trailing blank lines of a source file that are expanded
MaxTermLines == 1    \* body lines of the texts that vary terminators and line sets

\* ------------------------------------------------------------------------
\* Characters and Python's str primitives
\* ------------------------------------------------------------------------
NUL == "NUL"
Digits == <<"0", "1", "2", "3", "4", "5", "6", "7", "8", "9">>
DigitSet == {Digits[i] : i \in 1..10}
\* str.isspace() characters that occur in the model's texts
PyWhitespace == {" ", "\t", "\n", "\r", "\f"}

SetMin(S) == CHOOSE x \in S : \A y \in S : x <= y
SetMax(S) == CHOOSE x \in S : \A y \in S : x >= y

At(s, i) == s[i + 1]

\* Python's normalisation of a slice bound
NormIdx(n, len) ==
    IF n < 0 THEN (IF n + len < 0 THEN 0 ELSE n + len)
    ELSE IF n > len THEN len ELSE n

\* s[a:b]
Slice(s, a, b) ==
    LET lo == NormIdx(a, Len(s))
        hi == NormIdx(b, Len(s))
    IN  IF lo >= hi THEN <<>> ELSE SubSeq(s, lo + 1, hi)

\* s.find(sub, start, end)
Find(s, sub, start, end) ==
    LET lo == NormIdx(start, Len(s))
        hi == NormIdx(end, Len(s))
        hits == {i \in lo..(hi - Len(sub)) : SubSeq(s, i + 1, i + Len(sub)) = sub}
    IN  IF hits = {} THEN -1 ELSE SetMin(hits)

\* s.find(sub, start)
FindFrom(s, sub, start) == Find(s, sub, start, Len(s))

\* s.startswith(prefix)
StartsWith(s, prefix) ==
    Len(s) >= Len(prefix) /\ SubSeq(s, 1, Len(prefix)) = prefix

\* s.strip(chars)
Strip(s, chars) ==
    LET keep == {i \in 1..Len(s) : s[i] \notin chars}
    IN  IF keep = {} THEN <<>> ELSE SubSeq(s, SetMin(keep), SetMax(keep))

\* s.rstrip(chars)
RStrip(s, chars) ==
    LET keep == {i \in 1..Len(s) : s[i] \notin chars}
    IN  IF keep = {} THEN <<>> ELSE SubSeq(s, 1, SetMax(keep))

DigitVal(c) == (CHOOSE i \in 1..10 : Digits[i] = c) - 1

RECURSIVE DigitsValue(_)
DigitsValue(ds) ==
    IF ds = <<>> THEN 0
    ELSE 10 * DigitsValue(SubSeq(ds, 1, Len(ds) - 1)) + DigitVal(ds[Len(ds)])

\* int(s): surrounding whitespace is ignored, then an optional sign and
\* decimal digits, single underscores allowed between digits.
PyInt(s) ==
    LET t == Strip(s, PyWhitespace)
        signed == t # <<>> /\ t[1] \in {"+", "-"}
        body == IF signed THEN SubSeq(t, 2, Len(t)) ELSE t
        wellformed ==
            /\ body # <<>>
            /\ \A i \in 1..Len(body) : body[i] \in DigitSet \cup {"_"}
            /\ body[1] # "_" /\ body[Len(body)] # "_"
            /\ \A i \in 1..(Len(body) - 1) : ~(body[i] = "_" /\ body[i + 1] = "_")
        ds == SelectSeq(body, LAMBDA c : c \in DigitSet)
    IN  IF wellformed
        THEN [ok |-> TRUE, v |-> IF signed /\ t[1] = "-" THEN 0 - DigitsValue(ds) ELSE DigitsValue(ds)]
        ELSE [ok |-> FALSE, v |-> 0]

RECURSIVE NatToStr(_)
NatToStr(n) ==
    IF n < 10 THEN <<Digits[n + 1]>>
    ELSE NatToStr(n \div 10) \o <<Digits[(n % 10) + 1]>>

\* str(n) for an int
IntToStr(n) == IF n < 0 THEN <<"-">> \o NatToStr(0 - n) ELSE NatToStr(n)

\* ------------------------------------------------------------------------
\* Format constants (module level of catalogfs_lister.py)
\* ------------------------------------------------------------------------
CFSFILE_VERSION_1 == 1
CFSFILE_VERSION_2 == 2
CFSFILE_VERSION_3 == 3
CFSFILE_CURRENT_VERSION == CFSFILE_VERSION_3
FORMAT_FIELD_DELIMITER == <<"=">>
FORMAT_NEW_LINE_CHAR == "\n"
FORMAT_NEW_LINE_CHAR_2 == "\r"
FORMAT_NEW_LINE_LENGTH == 1
FORMAT_TRIMMING_CHARS == {" ", "\t", "\r", "\n"}
FORMAT_MAX_FILE_SIZE == 1048576
FORMAT_HEADER_NAME == <<"C", "a", "t", "a", "l", "o", "g", "F", "S">>
FORMAT_HEADER_TO_WRITE ==
    FORMAT_HEADER_NAME \o FORMAT_FIELD_DELIMITER \o IntToStr(CFSFILE_CURRENT_VERSION)
        \o <<FORMAT_NEW_LINE_CHAR>>
FORMAT_HEADER_PREFIX_OLD_FORMAT == <<"C", "a", "t", "a", "l", "o", "g", "F", "S", ".", "F", "i", "l", "e", ".">>

\* ------------------------------------------------------------------------
\* class CFSFile
\* ------------------------------------------------------------------------
\* The attributes of CFSFile in declaration order, and their spelling in a
\* record text.
FieldOrder == <<"size", "blocks", "mode", "uid", "gid", "atime", "mtime", "ctime", "atimensec", "mtimensec", "ctimensec", "nlink", "blksize", "sha256">>
Fields == {FieldOrder[i] : i \in 1..Len(FieldOrder)}
IntFields == Fields \ {"sha256"}
NsecFields == {"atimensec", "mtimensec", "ctimensec"}
FieldChars(f) ==
    CASE f = "size" -> <<"s", "i", "z", "e">>
      [] f = "blocks" -> <<"b", "l", "o", "c", "k", "s">>
      [] f = "mode" -> <<"m", "o", "d", "e">>
      [] f = "uid" -> <<"u", "i", "d">>
      [] f = "gid" -> <<"g", "i", "d">>
      [] f = "atime" -> <<"a", "t", "i", "m", "e">>
      [] f = "mtime" -> <<"m", "t", "i", "m", "e">>
      [] f = "ctime" -> <<"c", "t", "i", "m", "e">>
      [] f = "atimensec" -> <<"a", "t", "i", "m", "e", "n", "s", "e", "c">>
      [] f = "mtimensec" -> <<"m", "t", "i", "m", "e", "n", "s", "e", "c">>
      [] f = "ctimensec" -> <<"c", "t", "i", "m", "e", "n", "s", "e", "c">>
      [] f = "nlink" -> <<"n", "l", "i", "n", "k">>
      [] f = "blksize" -> <<"b", "l", "k", "s", "i", "z", "e">>
      [] f = "sha256" -> <<"s", "h", "a", "2", "5", "6">>
c_name == <<"n", "a", "m", "e">>
c_path == <<"p", "a", "t", "h">>

\* A Python value held by an attribute: None, an int, a str, or the float
\* number of seconds ns / 10^9 that os.stat_result gives for st_atime,
\* st_mtime and st_ctime.
None == [k |-> "none", n |-> 0, s |-> <<>>]
IntV(n) == [k |-> "int", n |-> n, s |-> <<>>]
StrV(s) == [k |-> "str", n |-> 0, s |-> s]
FloatV(ns) == [k |-> "float", n |-> ns, s |-> <<>>]

\* CFSFile with every integer attribute 0 instead of None
CFSFile_ZeroDefaults == [f \in Fields |-> IF f = "sha256" THEN None ELSE IntV(0)]

\* CFSFile.__init__
CFSFile == [f \in Fields |-> None]

\* ------------------------------------------------------------------------
\* Outcome of a decoding call: it returns, raises RuntimeError(msg + arg),
\* or never returns ("hang").  cfs_file is the CFSFile as the call left it.
\* ------------------------------------------------------------------------
Ok(cfs_file) == [status |-> "ok", cfs_file |-> cfs_file, msg |-> "", arg |-> <<>>]
Raise(cfs_file, msg, arg) == [status |-> "error", cfs_file |-> cfs_file, msg |-> msg, arg |-> arg]
Hang(cfs_file) == [status |-> "hang", cfs_file |-> cfs_file, msg |-> "", arg |-> <<>>]

MSG_INVALID_STRING == "Invalid string in CatalogFS file"
MSG_NO_HEADER == "CatalogFS file expected but no valid header found"
MSG_VERSION_STRING == "CatalogFS file has invalid version string: "
MSG_UNSUPPORTED_VERSION == "CatalogFS file has unsupported version (file version: "
MSG_NOT_AN_INTEGER == "Invalid field value, not an integer: "
MSG_UNKNOWN_PARAM == "Unknown param name in CatalogFS file"
MSG_UNKNOWN_FORMAT_VERSION == "Unknown format version of CatalogFS file: "
MSG_OLD_VERSION == "CatalogFS file has invalid old-format version (file version: "

\* ------------------------------------------------------------------------
\* Current format (version 3) reader
\* ------------------------------------------------------------------------
is_old_format_cfsfile(data) == StartsWith(data, FORMAT_HEADER_PREFIX_OLD_FORMAT)

\* find_next_newline_in_string that knows FORMAT_NEW_LINE_CHAR only
find_next_newline_in_string_OnlyLF(s, start_position) ==
    LET hits == {i \in start_position..(Len(s) - 1) : At(s, i) = FORMAT_NEW_LINE_CHAR}
    IN  IF hits = {} THEN -1 ELSE SetMin(hits)

find_next_newline_in_string(s, start_position) ==
    LET hits == {i \in start_position..(Len(s) - 1) :
                    At(s, i) = FORMAT_NEW_LINE_CHAR \/ At(s, i) = FORMAT_NEW_LINE_CHAR_2}
    IN  IF hits = {} THEN -1 ELSE SetMin(hits)

\* cfsfile_get_next_option_pair that skips every line without '='
RECURSIVE cfsfile_get_next_option_pair_SkipsAny(_, _)
cfsfile_get_next_option_pair_SkipsAny(data, start_position) ==
    IF start_position >= Len(data)
    THEN [raised |-> FALSE, pos |-> -1, option |-> <<>>, value |-> <<>>]
    ELSE
      LET nl == find_next_newline_in_string(data, start_position)
          line_end == IF nl = -1 THEN Len(data) ELSE nl
          param_end == Find(data, FORMAT_FIELD_DELIMITER, start_position, line_end)
      IN  IF param_end = -1
          THEN cfsfile_get_next_option_pair_SkipsAny(data, line_end + FORMAT_NEW_LINE_LENGTH)
          ELSE [raised |-> FALSE,
                pos |-> line_end + FORMAT_NEW_LINE_LENGTH,
                option |-> Strip(Slice(data, start_position, param_end), FORMAT_TRIMMING_CHARS),
                value |-> Slice(data, param_end + Len(FORMAT_FIELD_DELIMITER), line_end)]

\* Returns (pos, option, value); raised stands for the RuntimeError.  The
\* recursion is the while loop: a whitespace line is skipped.
RECURSIVE cfsfile_get_next_option_pair(_, _)
cfsfile_get_next_option_pair(data, start_position) ==
    IF start_position >= Len(data)
    THEN [raised |-> FALSE, pos |-> -1, option |-> <<>>, value |-> <<>>]
    ELSE
      LET nl == find_next_newline_in_string(data, start_position)
          line_end == IF nl = -1 THEN Len(data) ELSE nl
          param_end == Find(data, FORMAT_FIELD_DELIMITER, start_position, line_end)
      IN  IF param_end = -1
          THEN IF Len(Strip(Slice(data, start_position, line_end), FORMAT_TRIMMING_CHARS)) > 0
               THEN [raised |-> TRUE, pos |-> -1, option |-> <<>>, value |-> <<>>]
               ELSE cfsfile_get_next_option_pair(data, line_end + FORMAT_NEW_LINE_LENGTH)
          ELSE [raised |-> FALSE,
                pos |-> line_end + FORMAT_NEW_LINE_LENGTH,
                option |-> Strip(Slice(data, start_position, param_end), FORMAT_TRIMMING_CHARS),
                value |-> Slice(data, param_end + Len(FORMAT_FIELD_DELIMITER), line_end)]

\* cfsfile_extract_int that returns 0 for a text that is no integer
cfsfile_extract_int_ZeroOnError(field_value_str) ==
    [ok |-> TRUE, v |-> PyInt(Strip(field_value_str, FORMAT_TRIMMING_CHARS)).v,
     arg |-> field_value_str]

\* ok = FALSE stands for RuntimeError(MSG_NOT_AN_INTEGER + field_value_str)
cfsfile_extract_int(field_value_str) ==
    LET r == PyInt(Strip(field_value_str, FORMAT_TRIMMING_CHARS))
    IN  [ok |-> r.ok, v |-> r.v, arg |-> field_value_str]

\* fill_cfsfile_options that ignores a name it does not know
RECURSIVE fill_cfsfile_options_UnknownIgnored(_, _, _)
fill_cfsfile_options_UnknownIgnored(data, current_pos, cfs_file) ==
    LET pair == cfsfile_get_next_option_pair(data, current_pos)
        param == pair.option
    IN  IF pair.raised THEN Raise(cfs_file, MSG_INVALID_STRING, <<>>)
        ELSE IF pair.pos = -1 THEN Ok(cfs_file)
        ELSE IF \E f \in IntFields : param = FieldChars(f)
        THEN LET f == CHOOSE g \in IntFields : param = FieldChars(g)
                 r == cfsfile_extract_int(pair.value)
             IN  IF r.ok
                 THEN fill_cfsfile_options_UnknownIgnored(data, pair.pos,
                          [cfs_file EXCEPT ![f] = IntV(r.v)])
                 ELSE Raise(cfs_file, MSG_NOT_AN_INTEGER, r.arg)
        ELSE IF param = FieldChars("sha256")
        THEN fill_cfsfile_options_UnknownIgnored(data, pair.pos,
                 [cfs_file EXCEPT !["sha256"] = StrV(Strip(pair.value, FORMAT_TRIMMING_CHARS))])
        ELSE fill_cfsfile_options_UnknownIgnored(data, pair.pos, cfs_file)

\* The while True loop of fill_cfsfile_from_string, from current_pos on.
\* The if/elif chain over the thirteen integer attributes is one branch here.
RECURSIVE fill_cfsfile_options(_, _, _)
fill_cfsfile_options(data, current_pos, cfs_file) ==
    LET pair == cfsfile_get_next_option_pair(data, current_pos)
        param == pair.option
    IN  IF pair.raised THEN Raise(cfs_file, MSG_INVALID_STRING, <<>>)
        ELSE IF pair.pos = -1 THEN Ok(cfs_file)
        ELSE IF \E f \in IntFields : param = FieldChars(f)
        THEN LET f == CHOOSE g \in IntFields : param = FieldChars(g)
                 r == cfsfile_extract_int(pair.value)
             IN  IF r.ok
                 THEN fill_cfsfile_options(data, pair.pos, [cfs_file EXCEPT ![f] = IntV(r.v)])
                 ELSE Raise(cfs_file, MSG_NOT_AN_INTEGER, r.arg)
        ELSE IF param = FieldChars("sha256")
        THEN fill_cfsfile_options(data, pair.pos,
                 [cfs_file EXCEPT !["sha256"] = StrV(Strip(pair.value, FORMAT_TRIMMING_CHARS))])
        ELSE Raise(cfs_file, MSG_UNKNOWN_PARAM, <<>>)

\* One iteration of the while True loop of fill_cfsfile_from_string: pos is
\* -1 when the loop is left by break
fill_cfsfile_iteration(data, current_pos, cfs_file) ==
    LET pair == cfsfile_get_next_option_pair(data, current_pos)
        param == pair.option
        Assigned(c) == [raised |-> FALSE, msg |-> "", arg |-> <<>>, pos |-> pair.pos,
                        cfs_file |-> c]
        Raised(msg, arg) == [raised |-> TRUE, msg |-> msg, arg |-> arg, pos |-> current_pos,
                             cfs_file |-> cfs_file]
    IN  IF pair.raised THEN Raised(MSG_INVALID_STRING, <<>>)
        ELSE IF pair.pos = -1 THEN Assigned(cfs_file)
        ELSE IF \E f \in IntFields : param = FieldChars(f)
        THEN IF cfsfile_extract_int(pair.value).ok
             THEN Assigned([cfs_file EXCEPT
                      ![CHOOSE g \in IntFields : param = FieldChars(g)] =
                          IntV(cfsfile_extract_int(pair.value).v)])
             ELSE Raised(MSG_NOT_AN_INTEGER, cfsfile_extract_int(pair.value).arg)
        ELSE IF param = FieldChars("sha256")
        THEN Assigned([cfs_file EXCEPT
                 !["sha256"] = StrV(Strip(pair.value, FORMAT_TRIMMING_CHARS))])
        ELSE Raised(MSG_UNKNOWN_PARAM, <<>>)

\* fill_cfsfile_from_string that rejects only versions above 3
fill_cfsfile_from_string_OlderAccepted(data, cfs_file) ==
    LET hdr == cfsfile_get_next_option_pair(data, 0)
        version == PyInt(hdr.value)
    IN  IF hdr.raised THEN Raise(cfs_file, MSG_INVALID_STRING, <<>>)
        ELSE IF hdr.option # FORMAT_HEADER_NAME THEN Raise(cfs_file, MSG_NO_HEADER, <<>>)
        ELSE IF ~version.ok THEN Raise(cfs_file, MSG_VERSION_STRING, hdr.value)
        ELSE IF version.v > CFSFILE_VERSION_3
        THEN Raise(cfs_file, MSG_UNSUPPORTED_VERSION, IntToStr(version.v))
        ELSE fill_cfsfile_options(data, hdr.pos, cfs_file)

fill_cfsfile_from_string(data, cfs_file) ==
    LET hdr == cfsfile_get_next_option_pair(data, 0)
        version == PyInt(hdr.value)
    IN  IF hdr.raised THEN Raise(cfs_file, MSG_INVALID_STRING, <<>>)
        ELSE IF hdr.option # FORMAT_HEADER_NAME THEN Raise(cfs_file, MSG_NO_HEADER, <<>>)
        ELSE IF ~version.ok THEN Raise(cfs_file, MSG_VERSION_STRING, hdr.value)
        ELSE IF version.v # CFSFILE_VERSION_3
        THEN Raise(cfs_file, MSG_UNSUPPORTED_VERSION, IntToStr(version.v))
        ELSE fill_cfsfile_options(data, hdr.pos, cfs_file)

\* ------------------------------------------------------------------------
\* Legacy formats (versions 1 and 2) reader
\* ------------------------------------------------------------------------
old_new_line == <<"\n">>
old_field_sep == <<":", " ">>
old_path_end == <<NUL, "\n">>

old_format_extract_next_int(data, start_position) ==
    LET found == FindFrom(data, old_new_line, start_position)
        field_end == IF found = -1 THEN Len(data) ELSE found
        field_value_str == Strip(Slice(data, start_position, field_end), PyWhitespace)
        r == PyInt(field_value_str)
    IN  [ok |-> r.ok, pos |-> field_end + Len(old_new_line), v |-> IntV(r.v),
         arg |-> field_value_str]

old_format_extract_next_string(data, start_position) ==
    LET found == FindFrom(data, old_new_line, start_position)
        field_end == IF found = -1 THEN Len(data) ELSE found
    IN  [ok |-> TRUE, pos |-> field_end + Len(old_new_line),
         v |-> StrV(Strip(Slice(data, start_position, field_end), PyWhitespace)),
         arg |-> <<>>]

\* A path extraction that ends the value at the next newline
old_format_extract_next_path_ToNewline(data, start_position) ==
    LET found == FindFrom(data, old_new_line, start_position)
        field_end == IF found = -1 THEN Len(data) ELSE found
    IN  [ok |-> TRUE, pos |-> field_end + Len(old_new_line),
         v |-> StrV(RStrip(Slice(data, start_position, field_end), {NUL})),
         arg |-> <<>>]

old_format_extract_next_path(data, start_position) ==
    LET found == FindFrom(data, old_path_end, start_position)
        field_end == IF found = -1 THEN Len(data) ELSE found
    IN  [ok |-> TRUE, pos |-> field_end + Len(old_path_end),
         v |-> StrV(RStrip(Slice(data, start_position, field_end), {NUL})),
         arg |-> <<>>]

\* One iteration of the while loop of old_format_fill_cfsfile_body_from_string
\* at current_pos < len(data).  line_end is -1 when no newline is left, and
\* is used as it is: as the end of the search for ': ', as the end of the
\* slice that is tested for blankness, and in current_pos = line_end + 1.
old_format_body_iteration(data, current_pos, cfs_file) ==
    LET line_end == FindFrom(data, old_new_line, current_pos)
        param_end == Find(data, old_field_sep, current_pos, line_end)
        param == Slice(data, current_pos, param_end)
        value_start == param_end + Len(old_field_sep)
        Assign(r, f) == IF r.ok
                      THEN [raised |-> FALSE, msg |-> "", arg |-> <<>>, pos |-> r.pos,
                            cfs_file |-> IF f \in Fields THEN [cfs_file EXCEPT ![f] = r.v]
                                         ELSE cfs_file]
                      ELSE [raised |-> TRUE, msg |-> MSG_NOT_AN_INTEGER, arg |-> r.arg,
                            pos |-> current_pos, cfs_file |-> cfs_file]
    IN  IF param_end = -1
        THEN IF Len(Strip(Slice(data, current_pos, line_end), FORMAT_TRIMMING_CHARS)) > 0
             THEN [raised |-> TRUE, msg |-> MSG_INVALID_STRING, arg |-> <<>>,
                   pos |-> current_pos, cfs_file |-> cfs_file]
             ELSE [raised |-> FALSE, msg |-> "", arg |-> <<>>,
                   pos |-> line_end + Len(old_new_line), cfs_file |-> cfs_file]
        ELSE IF \E f \in IntFields : param = FieldChars(f)
        THEN Assign(old_format_extract_next_int(data, value_start),
                  CHOOSE f \in IntFields : param = FieldChars(f))
        ELSE IF param = FieldChars("sha256")
        THEN Assign(old_format_extract_next_string(data, value_start), "sha256")
        ELSE IF param = c_name \/ param = c_path
        THEN Assign(old_format_extract_next_path(data, value_start), "_")
        ELSE [raised |-> TRUE, msg |-> MSG_UNKNOWN_PARAM, arg |-> <<>>,
              pos |-> current_pos, cfs_file |-> cfs_file]

\* The while loop.  An iteration is a function of (data, current_pos) except
\* for the attribute it assigns, so once an iteration does not move
\* current_pos forward the positions repeat for ever: the call never returns.
RECURSIVE old_format_body_loop(_, _, _)
old_format_body_loop(data, current_pos, cfs_file) ==
    IF ~(current_pos < Len(data)) THEN Ok(cfs_file)
    ELSE LET it == old_format_body_iteration(data, current_pos, cfs_file)
         IN  IF it.raised THEN Raise(it.cfs_file, it.msg, it.arg)
             ELSE IF it.pos <= current_pos THEN Hang(it.cfs_file)
             ELSE old_format_body_loop(data, it.pos, it.cfs_file)

old_format_fill_cfsfile_body_from_string(data, version, cfs_file) ==
    IF version # CFSFILE_VERSION_1 /\ version # CFSFILE_VERSION_2
    THEN Raise(cfs_file, MSG_UNKNOWN_FORMAT_VERSION, IntToStr(version))
    ELSE old_format_body_loop(data, 0, cfs_file)

old_format_fill_cfsfile_from_string(data, cfs_file) ==
    LET header_end == FindFrom(data, old_new_line, 0)
        header == Slice(data, 0, header_end)
        version_str == Slice(header, Len(FORMAT_HEADER_PREFIX_OLD_FORMAT), Len(header))
        version == PyInt(version_str)
    IN  IF header_end = -1 THEN Raise(cfs_file, MSG_NO_HEADER, <<>>)
        ELSE IF ~StartsWith(header, FORMAT_HEADER_PREFIX_OLD_FORMAT)
        THEN Raise(cfs_file, MSG_NO_HEADER, <<>>)
        ELSE IF ~version.ok THEN Raise(cfs_file, MSG_VERSION_STRING, version_str)
        ELSE IF version.v # CFSFILE_VERSION_1 /\ version.v # CFSFILE_VERSION_2
        THEN Raise(cfs_file, MSG_OLD_VERSION, IntToStr(version.v))
        ELSE old_format_fill_cfsfile_body_from_string(
                 Slice(data, header_end + Len(old_new_line), Len(data)), version.v, cfs_file)

\* read_cfsfile on the text that filepath.read_text returned
read_cfsfile(data, cfs_file) ==
    IF is_old_format_cfsfile(data)
    THEN old_format_fill_cfsfile_from_string(data, cfs_file)
    ELSE fill_cfsfile_from_string(data, cfs_file)

\* ------------------------------------------------------------------------
\* Writer
\* ------------------------------------------------------------------------
\* str(v) inside an f-string, for the values an attribute is written from
PyStr(v) == CASE v.k = "int" -> IntToStr(v.n)
              [] v.k = "str" -> v.s

NS_PER_SEC == 1000000000

\* int(v): an int is itself, a float is truncated towards zero
PyIntOf(v) == CASE v.k = "int" -> v.n
                [] v.k = "float" -> IF v.n >= 0 THEN v.n \div NS_PER_SEC
                                    ELSE 0 - ((0 - v.n) \div NS_PER_SEC)

\* FieldLine without the line's newline
FieldLine_NoNewline(f, cond, text) ==
    IF cond THEN FieldChars(f) \o FORMAT_FIELD_DELIMITER \o text ELSE <<>>

\* One conditional f-string of write_cfsfile: "name=text\n" if cond else ''
FieldLine(f, cond, text) ==
    IF cond THEN FieldChars(f) \o FORMAT_FIELD_DELIMITER \o text \o <<FORMAT_NEW_LINE_CHAR>>
    ELSE <<>>

\* (f"name={cfs_file.name}\n" if cfs_file.name is not None else '')
PlainLine(cfs_file, f) == FieldLine(f, cfs_file[f] # None, PyStr(cfs_file[f]))

\* (f"name={int(cfs_file.name)}\n" if cfs_file.name is not None else '')
SecondsLine(cfs_file, f) == FieldLine(f, cfs_file[f] # None, IntToStr(PyIntOf(cfs_file[f])))

\* NsecLine without the test for zero
NsecLine_ZeroWritten(cfs_file, f) == FieldLine(f, cfs_file[f] # None, PyStr(cfs_file[f]))

\* (f"name={cfs_file.name}\n" if cfs_file.name is not None and cfs_file.name != 0 else '')
NsecLine(cfs_file, f) ==
    FieldLine(f, cfs_file[f] # None /\ cfs_file[f] # IntV(0), PyStr(cfs_file[f]))

\* write_cfsfile_data with the full profile writing blocks before size and
\* the other two profiles writing mode as well
write_cfsfile_data_Shuffled(cfs_file, flag_data_only, flag_data_and_time_only) ==
    IF flag_data_only
    THEN FORMAT_HEADER_TO_WRITE
           \o PlainLine(cfs_file, "size")
           \o PlainLine(cfs_file, "mode")
           \o PlainLine(cfs_file, "sha256")
    ELSE IF flag_data_and_time_only
    THEN FORMAT_HEADER_TO_WRITE
           \o PlainLine(cfs_file, "size")
           \o PlainLine(cfs_file, "mode")
           \o SecondsLine(cfs_file, "mtime")
           \o NsecLine(cfs_file, "mtimensec")
           \o PlainLine(cfs_file, "sha256")
    ELSE FORMAT_HEADER_TO_WRITE
           \o PlainLine(cfs_file, "blocks")
           \o PlainLine(cfs_file, "size")
           \o PlainLine(cfs_file, "mode")
           \o PlainLine(cfs_file, "uid")
           \o PlainLine(cfs_file, "gid")
           \o SecondsLine(cfs_file, "atime")
           \o SecondsLine(cfs_file, "mtime")
           \o SecondsLine(cfs_file, "ctime")
           \o NsecLine(cfs_file, "atimensec")
           \o NsecLine(cfs_file, "mtimensec")
           \o NsecLine(cfs_file, "ctimensec")
           \o PlainLine(cfs_file, "nlink")
           \o PlainLine(cfs_file, "blksize")
           \o PlainLine(cfs_file, "sha256")

\* The string data that write_cfsfile builds
write_cfsfile_data(cfs_file, flag_data_only, flag_data_and_time_only) ==
    IF flag_data_only
    THEN FORMAT_HEADER_TO_WRITE
           \o PlainLine(cfs_file, "size")
           \o PlainLine(cfs_file, "sha256")
    ELSE IF flag_data_and_time_only
    THEN FORMAT_HEADER_TO_WRITE
           \o PlainLine(cfs_file, "size")
           \o SecondsLine(cfs_file, "mtime")
           \o NsecLine(cfs_file, "mtimensec")
           \o PlainLine(cfs_file, "sha256")
    ELSE FORMAT_HEADER_TO_WRITE
           \o PlainLine(cfs_file, "size")
           \o PlainLine(cfs_file, "blocks")
           \o PlainLine(cfs_file, "mode")
           \o PlainLine(cfs_file, "uid")
           \o PlainLine(cfs_file, "gid")
           \o SecondsLine(cfs_file, "atime")
           \o SecondsLine(cfs_file, "mtime")
           \o SecondsLine(cfs_file, "ctime")
           \o NsecLine(cfs_file, "atimensec")
           \o NsecLine(cfs_file, "mtimensec")
           \o NsecLine(cfs_file, "ctimensec")
           \o PlainLine(cfs_file, "nlink")
           \o PlainLine(cfs_file, "blksize")
           \o PlainLine(cfs_file, "sha256")

\* ------------------------------------------------------------------------
\* Files.  An entry of the output tree is absent (type "none") or has a type,
\* a text, and for each of mode, owner and times whether it was set from
\* the source's stat.
\* ------------------------------------------------------------------------
NoEntry == [type |-> "none", data |-> <<>>, chmod |-> FALSE, chown |-> FALSE, utime |-> FALSE]
Entry(type, data) == [type |-> type, data |-> data, chmod |-> FALSE, chown |-> FALSE, utime |-> FALSE]

\* stat.S_IFMT and the type tests of the stat module
S_IFDIR == 16384
S_IFREG == 32768
S_IFLNK == 40960
S_IFMT(mode) == ((mode \div 4096) % 16) * 4096
S_ISDIR(mode) == S_IFMT(mode) = S_IFDIR
S_ISREG(mode) == S_IFMT(mode) = S_IFREG
S_ISLNK(mode) == S_IFMT(mode) = S_IFLNK

\* An existence test that answers only for the three types it knows
does_exist_TypedOnly(entry, expected_type) ==
    IF entry.type = "none" THEN FALSE
    ELSE IF expected_type = S_IFDIR THEN entry.type = "dir"
    ELSE IF expected_type = S_IFREG THEN entry.type = "reg"
    ELSE IF expected_type = S_IFLNK THEN entry.type = "lnk"
    ELSE FALSE

\* does_exist(path, expected_type) for the entry found at path
does_exist(entry, expected_type) ==
    IF entry.type = "none" THEN FALSE
    ELSE IF expected_type = 0 THEN TRUE
    ELSE IF expected_type = S_IFDIR THEN entry.type = "dir"
    ELSE IF expected_type = S_IFREG THEN entry.type = "reg"
    ELSE IF expected_type = S_IFLNK THEN entry.type = "lnk"
    ELSE FALSE

\* Python's % with a positive divisor
PyMod(a, b) == a % b

create_cfsfile_from_regularfile(st) ==
    [CFSFile EXCEPT
        !["size"] = IntV(st.st_size),
        !["blocks"] = IntV(st.st_blocks),
        !["mode"] = IntV(st.st_mode),
        !["uid"] = IntV(st.st_uid),
        !["gid"] = IntV(st.st_gid),
        !["atime"] = FloatV(st.st_atime_ns),
        !["mtime"] = FloatV(st.st_mtime_ns),
        !["ctime"] = FloatV(st.st_ctime_ns),
        !["atimensec"] = IntV(PyMod(st.st_atime_ns, NS_PER_SEC)),
        !["mtimensec"] = IntV(PyMod(st.st_mtime_ns, NS_PER_SEC)),
        !["ctimensec"] = IntV(PyMod(st.st_ctime_ns, NS_PER_SEC)),
        !["nlink"] = IntV(st.st_nlink),
        !["blksize"] = IntV(st.st_blksize),
        !["sha256"] = None]

\* A writer that gives up at the first attribute call that fails
write_cfsfile_StopsAtFailure(cfs_file, output_entry, flag_data_only, flag_data_and_time_only, env) ==
    LET data == write_cfsfile_data(cfs_file, flag_data_only, flag_data_and_time_only)
    IN  IF env.write_text = "open_fails"
        THEN [res |-> "exception", entry |-> output_entry]
        ELSE IF env.write_text = "write_fails"
        THEN [res |-> "exception", entry |-> Entry("reg", <<>>)]
        ELSE [res |-> IF env.chmod_fails \/ env.chown_fails \/ env.utime_fails
                      THEN "exception" ELSE "True",
              entry |-> [type |-> "reg", data |-> data,
                         chmod |-> ~env.chmod_fails,
                         chown |-> ~env.chmod_fails /\ ~env.chown_fails,
                         utime |-> ~env.chmod_fails /\ ~env.chown_fails /\ ~env.utime_fails]]

\* write_cfsfile.  env says which system calls fail in this run.  The result
\* is the entry at output_cfsfile_file afterwards and how the call ended:
\* write_text raises before or after it created the file, or the call
\* returns True whatever chmod, chown and utime did.
write_cfsfile(cfs_file, output_entry, flag_data_only, flag_data_and_time_only, env) ==
    LET data == write_cfsfile_data(cfs_file, flag_data_only, flag_data_and_time_only)
    IN  IF env.write_text = "open_fails"
        THEN [res |-> "exception", entry |-> output_entry]
        ELSE IF env.write_text = "write_fails"
        THEN [res |-> "exception", entry |-> Entry("reg", <<>>)]
        ELSE [res |-> "True",
              entry |-> [type |-> "reg", data |-> data,
                         chmod |-> ~env.chmod_fails,
                         chown |-> ~env.chown_fails,
                         utime |-> ~env.utime_fails]]

\* copy_symlink: shutil.copy2 raises or creates the link
copy_symlink(output_entry, env) ==
    IF env.copy_fails THEN [res |-> "exception", entry |-> output_entry]
    ELSE [res |-> "True", entry |-> Entry("lnk", <<>>)]

\* create_directory.  source_st is os.lstat(source_directory), output_entry
\* the entry at output_directory; mkdir raises or creates the directory.
create_directory(source_st, output_entry, skip_existing, env) ==
    IF does_exist(output_entry, S_IFDIR)
    THEN [res |-> IF skip_existing THEN "True" ELSE "False", entry |-> output_entry]
    ELSE IF does_exist(output_entry, 0) THEN [res |-> "False", entry |-> output_entry]
    ELSE IF S_ISLNK(source_st.st_mode) THEN copy_symlink(output_entry, env)
    ELSE IF ~S_ISDIR(source_st.st_mode) THEN [res |-> "False", entry |-> output_entry]
    ELSE IF env.mkdir_fails THEN [res |-> "exception", entry |-> output_entry]
    ELSE [res |-> "True", entry |-> Entry("dir", <<>>)]

\* update_directory.  os.chmod, os.chown and os.utime act on whatever is at
\* output_directory; each raises when nothing is there or when env says so,
\* and each exception is swallowed.
update_directory(source_st, output_entry, env) ==
    IF S_ISLNK(source_st.st_mode) THEN [res |-> "True", entry |-> output_entry]
    ELSE IF ~S_ISDIR(source_st.st_mode) THEN [res |-> "False", entry |-> output_entry]
    ELSE [res |-> "True",
          entry |-> IF output_entry.type = "none" THEN output_entry
                    ELSE [output_entry EXCEPT
                             !.chmod = @ \/ ~env.chmod_fails,
                             !.chown = @ \/ ~env.chown_fails,
                             !.utime = @ \/ ~env.utime_fails]]

\* A main that reports every failure of a root with the same status
main_OneStatus(flags, source_root, output_root) ==
    IF flags.source_is_cfsfile /\ flags.sha256 THEN [kind |-> "return", value |-> -5]
    ELSE IF source_root # "ok" THEN [kind |-> "return", value |-> -1]
    ELSE IF output_root \in {"ok", "missing"} THEN [kind |-> "walktree", value |-> 0]
    ELSE [kind |-> "return", value |-> -1]

\* main up to its call of walktree.  source_root and output_root say what
\* Path.resolve(strict=True) and Path.mkdir do for the two arguments.  The
\* result is the value main returns, "raise" when the mkdir of the output
\* root raises (nothing catches it), or "walktree" when the walk is started.
main(flags, source_root, output_root) ==
    IF flags.source_is_cfsfile /\ flags.sha256 THEN [kind |-> "return", value |-> -5]
    ELSE IF source_root = "missing" THEN [kind |-> "return", value |-> -1]
    ELSE IF source_root = "unresolvable" THEN [kind |-> "return", value |-> -2]
    ELSE IF output_root = "ok" THEN [kind |-> "walktree", value |-> 0]
    ELSE IF output_root = "unresolvable" THEN [kind |-> "return", value |-> -4]
    ELSE IF output_root = "uncreatable" THEN [kind |-> "raise", value |-> 0]
    ELSE IF output_root = "created_unresolvable" THEN [kind |-> "return", value |-> -3]
    ELSE [kind |-> "walktree", value |-> 0]

\* sys.exit(main()): the exit status of the process is the returned value
\* modulo 256, and 1 when main raised
sys_exit(m) == IF m.kind = "raise" THEN 1 ELSE PyMod(m.value, 256)

\* The digest sha256_checksum computes; its value is not modelled.
DIGEST == <<"d", "1", "9", "e">>

sha256_wrapper(flag_sha256, env) ==
    IF flag_sha256 /\ ~env.sha256_fails THEN StrV(DIGEST) ELSE None

\* A source entry is its lstat result st and, for a regular file, its content:
\* text followed by pad newline characters, st.st_size characters in all.
\* Each trailing newline is one more blank line that either reader skips, so
\* read_text expands at most MaxPad of them.
RECURSIVE Newlines(_)
Newlines(n) == IF n = 0 THEN <<>> ELSE <<"\n">> \o Newlines(n - 1)
\* Path.read_text opens the file in text mode with universal newlines: every
\* '\r\n' and every other '\r' of the content is read as '\n'.
RECURSIVE universal_newlines(_)
universal_newlines(text) ==
    IF text = <<>> THEN <<>>
    ELSE IF Head(text) # "\r" THEN <<Head(text)>> \o universal_newlines(Tail(text))
    ELSE IF Len(text) >= 2 /\ text[2] = "\n" THEN <<"\n">> \o universal_newlines(Tail(Tail(text)))
    ELSE <<"\n">> \o universal_newlines(Tail(text))
read_text(source) ==
    universal_newlines(source.text)
        \o Newlines(IF source.pad > MaxPad THEN MaxPad ELSE source.pad)

\* The size test that rejects at the limit already
file_is_too_big_AtLimit(st) == st.st_size >= FORMAT_MAX_FILE_SIZE

\* The size test of process_one_file on a source catalog file
file_is_too_big(st) == st.st_size > FORMAT_MAX_FILE_SIZE

\* What a call of process_one_file leaves: how it ended (res: "True",
\* "False", "exception", or "hang" when it never returns), the entry at
\* output_cfsfile_file afterwards, the CFSFile it built, the outcome of
\* read_cfsfile and whether read_cfsfile was called.
ProcessResult(res, entry, cfs_file, outcome, read) ==
    [res |-> res, entry |-> entry, cfs_file |-> cfs_file, outcome |-> outcome, read |-> read]
NotRead(res, entry) ==
    ProcessResult(res, entry, CFSFile, [status |-> "none", msg |-> "", arg |-> <<>>], FALSE)
OutcomeOf(r) == [status |-> r.status, msg |-> r.msg, arg |-> r.arg]
\* res = write_cfsfile(...); return res
ReturnWritten(w, cfs_file, outcome, read) ==
    ProcessResult(w.res, w.entry, cfs_file, outcome, read)

\* process_one_file from the try block on: r is what read_cfsfile did to
\* cfs_file
process_one_file_cfsfile(r, output_entry, flags, env) ==
    IF r.status = "error"
    THEN ProcessResult("False", output_entry, r.cfs_file, OutcomeOf(r), TRUE)
    ELSE IF r.status = "hang"
    THEN ProcessResult("hang", output_entry, r.cfs_file, OutcomeOf(r), TRUE)
    ELSE ReturnWritten(write_cfsfile(r.cfs_file, output_entry, flags.data_only,
                                     flags.data_and_time_only, env),
                       r.cfs_file, OutcomeOf(r), TRUE)

\* process_one_file for a regular source that is not a catalog file
process_one_file_regular(cfs_file, output_entry, flags, env) ==
    ReturnWritten(write_cfsfile(cfs_file, output_entry, flags.data_only,
                                flags.data_and_time_only, env),
                  cfs_file, [status |-> "none", msg |-> "", arg |-> <<>>], FALSE)

process_one_file_symlink(c) == NotRead(c.res, c.entry)

\* process_one_file.  source is the source entry: its lstat result and its
\* content.
process_one_file(source, output_entry, flags, env) ==
    IF does_exist(output_entry, S_IFREG) \/ does_exist(output_entry, S_IFLNK)
    THEN IF flags.skip_existing THEN NotRead("True", output_entry)
         ELSE NotRead("False", output_entry)
    ELSE IF does_exist(output_entry, 0) THEN NotRead("False", output_entry)
    ELSE IF ~S_ISREG(source.st.st_mode) /\ ~S_ISLNK(source.st.st_mode)
    THEN NotRead("False", output_entry)
    ELSE IF S_ISREG(source.st.st_mode)
    THEN IF flags.source_is_cfsfile
         THEN IF file_is_too_big(source.st)
              THEN NotRead("False", output_entry)
              ELSE process_one_file_cfsfile(
                       read_cfsfile(read_text(source),
                                    create_cfsfile_from_regularfile(source.st)),
                       output_entry, flags, env)
         ELSE process_one_file_regular(
                  [create_cfsfile_from_regularfile(source.st)
                      EXCEPT !["sha256"] = sha256_wrapper(flags.sha256, env)],
                  output_entry, flags, env)
    ELSE process_one_file_symlink(copy_symlink(output_entry, env))

\* ------------------------------------------------------------------------
\* Inputs that Init draws
\* ------------------------------------------------------------------------
SeqsUpTo(S, n) == UNION {[1..k -> S] : k \in 0..n}

LF == <<"\n">>
CR == <<"\r">>
CRLF == <<"\r", "\n">>

RECURSIVE JoinLines(_, _)
JoinLines(lines, term) ==
    IF lines = <<>> THEN <<>>
    ELSE lines[1] \o term \o JoinLines(Tail(lines), term)

\* The text of a header line and body lines, each followed by term; when
\* last is FALSE the text ends without the final line's terminator.
Assemble(hdr, lines, term, last) ==
    LET full == hdr \o term \o JoinLines(lines, term)
    IN  IF last THEN full ELSE SubSeq(full, 1, Len(full) - Len(term))

HDR_V3 == <<"C", "a", "t", "a", "l", "o", "g", "F", "S", "=", "3">>
HDR_V1 == <<"C", "a", "t", "a", "l", "o", "g", "F", "S", ".", "F", "i", "l", "e", ".", "1">>
HDR_V2 == <<"C", "a", "t", "a", "l", "o", "g", "F", "S", ".", "F", "i", "l", "e", ".", "2">>

\* Header lines: accepted spellings, other names, other versions
HeaderProbes ==
    { <<"C", "a", "t", "a", "l", "o", "g", "F", "S", "=", "3">>,
      <<"C", "a", "t", "a", "l", "o", "g", "F", "S", ".", "F", "i", "l", "e", ".", "1">>,
      <<"C", "a", "t", "a", "l", "o", "g", "F", "S", ".", "F", "i", "l", "e", ".", "2">>,
      <<" ", "C", "a", "t", "a", "l", "o", "g", "F", "S", " ", "=", " ", "+", "3", " ">>,
      <<"C", "a", "t", "a", "l", "o", "g", "F", "S", ".", "F", "i", "l", "e", ".", "0", "2">>,
      <<"C", "a", "t", "a", "l", "o", "g", "F", "S", "=", "4">>,
      <<"C", "a", "t", "a", "l", "o", "g", "F", "S", "=", "2">>,
      <<"C", "a", "t", "a", "l", "o", "g", "F", "S", "=", "x">>,
      <<"C", "a", "t", "a", "l", "o", "g", "F", "S", "=">>,
      <<"C", "a", "t", "a", "l", "o", "g", "F", "S">>,
      <<"C", "a", "t", "a", "l", "o", "g", "=", "3">>,
      <<"c", "a", "t", "a", "l", "o", "g", "f", "s", "=", "3">>,
      <<"C", "a", "t", "a", "l", "o", "g", "F", "S", ".", "F", "i", "l", "e", ".", "3">>,
      <<"C", "a", "t", "a", "l", "o", "g", "F", "S", ".", "F", "i", "l", "e", ".", "0">>,
      <<"C", "a", "t", "a", "l", "o", "g", "F", "S", ".", "F", "i", "l", "e", ".", "x">>,
      <<"C", "a", "t", "a", "l", "o", "g", "F", "S", ".", "F", "i", "l", "e", ".">>,
      <<"C", "a", "t", "a", "l", "o", "g", "F", "S", ".", "D", "i", "r", ".", "1">>,
      <<>> }

\* Body lines of the current format: fields, a blank line, a line without
\* '=', an unknown name, a value that is no integer
CurrentLines ==
    { <<"s", "i", "z", "e", "=", "1", "0">>,
      <<"m", "t", "i", "m", "e", "=", "-", "7">>,
      <<"s", "h", "a", "2", "5", "6", "=", "a", "b">>,
      <<" ", "m", "o", "d", "e", " ", "=", " ", "5", " ">>,
      <<" ", "\t">>,
      <<"b", "o", "g", "u", "s">>,
      <<"b", "o", "g", "u", "s", "=", "5">>,
      <<"u", "i", "d", "=", "x">> }

\* Further body lines, used in the shorter texts
MoreCurrentLines ==
    { <<"s", "i", "z", "e", "=", "3">>,
      <<"a", "t", "i", "m", "e", "n", "s", "e", "c", "=", "0">>,
      <<>>,
      <<"s", "i", "z", "e", " ", "5">>,
      <<"S", "i", "z", "e", "=", "1">>,
      <<"=", "5">>,
      <<"u", "i", "d", "=">>,
      <<"g", "i", "d", "=", " ", "1", ".", "5">>,
      <<"b", "l", "k", "s", "i", "z", "e", "=", "+", "1", "_", "0">> }

\* Body lines of the legacy formats; a name or path value ends with NUL
LegacyLines ==
    { <<"s", "i", "z", "e", ":", " ", "1", "0">>,
      <<"m", "t", "i", "m", "e", ":", " ", "-", "7">>,
      <<"n", "a", "m", "e", ":", " ", "a", "\n", "b", NUL>>,
      <<>>,
      <<"b", "o", "g", "u", "s">>,
      <<"b", "o", "g", "u", "s", ":", " ", "5">>,
      <<"s", "i", "z", "e", ":", " ", "x">> }

\* Further legacy body lines, used in the shorter texts
MoreLegacyLines ==
    { <<"s", "h", "a", "2", "5", "6", ":", " ", "a", "b">>,
      <<"s", "i", "z", "e", ":", " ", "3">>,
      <<"p", "a", "t", "h", ":", " ", "c", NUL>>,
      <<"a", "t", "i", "m", "e", "n", "s", "e", "c", ":", " ", "0">>,
      <<" ">>,
      <<"x">>,
      <<"s", "i", "z", "e", ":", "5">>,
      <<" ", "s", "i", "z", "e", ":", " ", "1">>,
      <<"u", "i", "d", ":", " ">>,
      <<"s", "h", "a", "2", "5", "6", ":", " ">>,
      <<"s", "h", "a", "2", "5", "6", ":", " ", "\f", "a", "b">> }

\* Lines of the two-line bodies whose text ends without a newline
CurrentTailLines ==
    { <<"s", "i", "z", "e", "=", "1", "0">>,
      <<"m", "t", "i", "m", "e", "=", "-", "7">>,
      <<"s", "h", "a", "2", "5", "6", "=">>,
      <<"s", "h", "a", "2", "5", "6", "=", " ", "e", "=", "f">>,
      <<"u", "i", "d", "=", "x">>,
      <<" ">>,
      <<"x">> }
LegacyTailLines ==
    { <<"s", "i", "z", "e", ":", " ", "1", "0">>,
      <<"m", "t", "i", "m", "e", ":", " ", "-", "7">>,
      <<"s", "h", "a", "2", "5", "6", ":", " ">>,
      <<"s", "h", "a", "2", "5", "6", ":", " ", "e", "=", "f", " ">>,
      <<"n", "a", "m", "e", ":", " ", "a", "\n", "b", NUL>>,
      <<"n", "a", "m", "e", ":", " ", "a", NUL, "b", NUL>>,
      <<"p", "a", "t", "h", ":", " ", "c", NUL, NUL>>,
      <<"u", "i", "d", ":", " ", "x">>,
      <<" ">>,
      <<"x">> }

IntVals == {0, -3, 42}
HashVals == { <<>>, <<"a", "0">>, <<"e", "=", "f">>, <<" ", "a">> }
FieldVals(f) == IF f = "sha256" THEN {StrV(h) : h \in HashVals} ELSE {IntV(n) : n \in IntVals}

\* Records with at most MaxPopulated attributes set, and records with every
\* attribute set
PartialRecords ==
    UNION { { [f \in Fields |-> IF f \in S THEN v[f] ELSE None] :
                v \in { w \in [S -> {IntV(n) : n \in IntVals} \cup {StrV(h) : h \in HashVals}] :
                            \A f \in S : w[f] \in FieldVals(f) } } :
            S \in {T \in SUBSET Fields : Cardinality(T) <= MaxPopulated} }
FullRecords ==
    { [f \in Fields |-> IF f = "sha256" THEN StrV(h)
                        ELSE IF f \in NsecFields THEN IntV(ns) ELSE IntV(n)] :
        n \in IntVals, ns \in IntVals, h \in HashVals }
Records == PartialRecords \cup FullRecords

\* The lstat result of a source entry of the given type bits and size;
\* times are in nanoseconds
Stat(type_bits, perm, size) ==
    [st_mode |-> type_bits + perm, st_size |-> size, st_blocks |-> 8,
     st_uid |-> 1000, st_gid |-> 100,
     st_atime_ns |-> 1500000000, st_mtime_ns |-> 1200000003, st_ctime_ns |-> 2000000000,
     st_nlink |-> 1, st_blksize |-> 4096]
S_IFIFO == 4096
RegularFile(text, pad) ==
    [st |-> Stat(S_IFREG, 420, Len(text) + pad), text |-> text, pad |-> pad]
OtherEntry(type_bits) == [st |-> Stat(type_bits, 511, 0), text |-> <<>>, pad |-> 0]

EnvOK == [write_text |-> "ok", chmod_fails |-> FALSE, chown_fails |-> FALSE,
          utime_fails |-> FALSE, copy_fails |-> FALSE, sha256_fails |-> FALSE]
WriteEnvs ==
    { [EnvOK EXCEPT !.chmod_fails = a, !.chown_fails = b, !.utime_fails = c] :
        a \in BOOLEAN, b \in BOOLEAN, c \in BOOLEAN }
    \cup { [EnvOK EXCEPT !.write_text = w] : w \in {"open_fails", "write_fails"} }

\* flag_data_only, flag_data_and_time_only
Profiles == {<<d, t>> : d \in BOOLEAN, t \in BOOLEAN}
Flags(skip, cfs, sha, profile) ==
    [skip_existing |-> skip, source_is_cfsfile |-> cfs, sha256 |-> sha,
     data_only |-> profile[1], data_and_time_only |-> profile[2]]

Given(rec, hdr, lines, term, last) ==
    [rec |-> rec, hdr |-> hdr, lines |-> lines, term |-> term, last |-> last]

\* Record texts: header probes, current-format bodies, legacy bodies
TextInputs ==
    { Given(CFSFile, h, ls, LF, last) :
        h \in HeaderProbes, last \in BOOLEAN,
        ls \in { <<>>, << <<"s", "i", "z", "e", "=", "1", "0">> >>,
                 << <<"s", "i", "z", "e", ":", " ", "1", "0">> >> } }
    \cup { Given(CFSFile, HDR_V3, ls, LF, TRUE) : ls \in SeqsUpTo(CurrentLines, MaxLines) }
    \cup { Given(CFSFile, HDR_V3, ls, t, last) :
             ls \in SeqsUpTo(CurrentLines \cup MoreCurrentLines, MaxTermLines),
             t \in {LF, CR, CRLF},
             last \in BOOLEAN }
    \cup { Given(CFSFile, h, ls, LF, TRUE) :
             h \in {HDR_V1, HDR_V2}, ls \in SeqsUpTo(LegacyLines, MaxLines) }
    \cup { Given(CFSFile, h, ls, LF, last) :
             h \in {HDR_V1, HDR_V2},
             ls \in SeqsUpTo(LegacyLines \cup MoreLegacyLines, MaxTermLines),
             last \in BOOLEAN }
    \cup { Given(CFSFile, HDR_V3, <<a, b>>, t, FALSE) :
             a \in CurrentTailLines, b \in CurrentTailLines, t \in {LF, CR, CRLF} }
    \cup { Given(CFSFile, h, <<a, b>>, LF, FALSE) :
             h \in {HDR_V1, HDR_V2}, a \in LegacyTailLines, b \in LegacyTailLines }

GivenText(g) == Assemble(g.hdr, g.lines, g.term, g.last)

\* Source catalog files handed to process_one_file
SourceTexts ==
    { Given(CFSFile, HDR_V3, ls, LF, TRUE) :
        ls \in { <<>>,
                 << <<"s", "i", "z", "e", "=", "1", "0">> >>,
                 << <<"s", "i", "z", "e", "=", "1", "0">>, <<"m", "t", "i", "m", "e", "=", "-", "7">>,
                    <<"s", "h", "a", "2", "5", "6", "=", "a", "b">> >>,
                 << <<"s", "i", "z", "e", "=", "x">> >> } }
    \cup { Given(CFSFile, HDR_V1, << <<"s", "i", "z", "e", ":", " ", "3">>, <<"x">> >>, LF, last) :
             last \in BOOLEAN }
    \cup { Given(CFSFile, HDR_V2,
                  << <<"s", "i", "z", "e", ":", " ", "1", "0">>,
                     <<"a", "t", "i", "m", "e", "n", "s", "e", "c", ":", " ", "0">>,
                     <<"s", "h", "a", "2", "5", "6", ":", " ", "e", "=", "f", " ">> >>,
                  LF, TRUE) }
    \cup { Given(CFSFile, <<"C", "a", "t", "a", "l", "o", "g", "F", "S", "=", "4">>, <<>>, LF, TRUE) }
\* Times of a source file in nanoseconds since the epoch, before and after it
TimeVals == {0, 1, 999999999, 1000000000, 1999999999,
             -1, -500000000, -1000000000, -1000000001, -1500000000}
Pads(text) == {0, 1, FORMAT_MAX_FILE_SIZE - Len(text), FORMAT_MAX_FILE_SIZE + 1 - Len(text)}
OutputEntries ==
    {NoEntry, Entry("reg", <<"o", "l", "d">>), Entry("lnk", <<>>), Entry("dir", <<>>),
     Entry("fifo", <<>>)}

\* The source tree of a run: the root holds the directory d and the files a
\* and b, and d holds the file c.
WalkPaths == {"d", "a", "b", "d/c"}
Step(op, path) == [op |-> op, path |-> path]

\* Which system calls on the output directory fail
DirEnvOK == [copy_fails |-> FALSE, mkdir_fails |-> FALSE, chmod_fails |-> FALSE,
             chown_fails |-> FALSE, utime_fails |-> FALSE]
\* d in the source tree (its lstat result, whether it can be read, the
\* calls that fail): a directory, one that cannot be read, a symlink to a
\* directory, and a directory whose mkdir or chown fails in the output
WalkDirectories ==
    { [st |-> Stat(S_IFDIR, 493, 0), readable |-> r, env |-> DirEnvOK] : r \in BOOLEAN }
    \cup { [st |-> Stat(S_IFLNK, 511, 0), readable |-> TRUE, env |-> DirEnvOK] }
    \cup { [st |-> Stat(S_IFDIR, 493, 0), readable |-> TRUE, env |-> e] :
             e \in { [DirEnvOK EXCEPT !.mkdir_fails = TRUE],
                     [DirEnvOK EXCEPT !.chown_fails = TRUE] } }

\* Two catalog files of the source tree: one that decodes, one with an
\* invalid integer
GoodFile ==
    [source |-> RegularFile(<<"C", "a", "t", "a", "l", "o", "g", "F", "S", "=", "3", "\n",
                              "s", "i", "z", "e", "=", "1", "0", "\n">>, 0),
     env |-> EnvOK]
BadFile ==
    [source |-> RegularFile(<<"C", "a", "t", "a", "l", "o", "g", "F", "S", "=", "3", "\n",
                              "s", "i", "z", "e", "=", "x", "\n">>, 0),
     env |-> EnvOK]
\* A file of the source tree: the two above, a catalog file over the size
\* limit, a legacy one whose last line is cut, a fifo, a symlink, and files
\* whose write_text raises
WalkFiles ==
    { GoodFile, BadFile,
      [GoodFile EXCEPT !.source =
          RegularFile(GoodFile.source.text,
                      FORMAT_MAX_FILE_SIZE + 1 - Len(GoodFile.source.text))],
      [GoodFile EXCEPT !.source = RegularFile(HDR_V1 \o <<"\n", "x">>, 0)],
      [GoodFile EXCEPT !.source = OtherEntry(S_IFIFO)],
      [GoodFile EXCEPT !.source = OtherEntry(S_IFLNK)],
      [GoodFile EXCEPT !.env = [EnvOK EXCEPT !.write_text = "open_fails"]],
      [GoodFile EXCEPT !.env = [EnvOK EXCEPT !.write_text = "write_fails"]] }

\* A run nothing goes wrong in: both roots resolve, every file decodes, the
\* output tree is empty
NoWorld ==
    [source_root |-> "ok", output_root |-> "ok",
     dir |-> [st |-> Stat(S_IFDIR, 493, 0), readable |-> TRUE, env |-> DirEnvOK],
     files |-> [p \in {"a", "b", "d/c"} |-> GoodFile],
     order |-> <<"a", "b">>,
     out |-> [p \in WalkPaths |-> NoEntry]]
SourceRoots == {"ok", "missing", "unresolvable"}
OutputRoots == {"ok", "missing", "uncreatable", "created_unresolvable", "unresolvable"}
\* The runs that reach walktree: the source tree, the order os.walk lists
\* the files in, and what the output tree holds at d and at a (nothing when
\* main had to create the output root)
WalkTrees ==
    { w \in
      { [NoWorld EXCEPT !.output_root = r, !.dir = dir,
                      !.files = [p \in {"a", "b", "d/c"} |->
                                    IF p = "a" THEN a ELSE IF p = "b" THEN b ELSE c],
                      !.order = order,
                      !.out = [p \in WalkPaths |->
                                  IF p = "d" THEN od ELSE IF p = "a" THEN oa ELSE NoEntry]] :
        r \in {"ok", "missing"},
        dir \in WalkDirectories,
        a \in WalkFiles, b \in {GoodFile, BadFile}, c \in {GoodFile, BadFile},
        order \in {<<"a", "b">>, <<"b", "a">>},
        od \in {NoEntry, Entry("dir", <<>>), Entry("reg", <<"o", "l", "d">>)},
        oa \in {NoEntry, Entry("reg", <<"o", "l", "d">>)} } :
      w.output_root = "ok" \/ w.out = NoWorld.out }

\* A walk that updates each directory right after creating it
Plan_UpdateAtOnce(w) ==
    <<Step("create", "d"), Step("update", "d")>>
        \o [i \in 1..Len(w.order) |-> Step("file", w.order[i])]
        \o (IF S_ISDIR(w.dir.st.st_mode) /\ w.dir.readable
            THEN <<Step("file", "d/c")>> ELSE <<>>)

\* os.walk(root_source_path, topdown=True, followlinks=False): the root
\* gives its directories and then its files, then a directory that can be
\* read gives its own; a symlink to a directory is listed and not entered.
\* The second walk visits the directories again.
Plan(w) ==
    <<Step("create", "d")>>
        \o [i \in 1..Len(w.order) |-> Step("file", w.order[i])]
        \o (IF S_ISDIR(w.dir.st.st_mode) /\ w.dir.readable
            THEN <<Step("file", "d/c")>> ELSE <<>>)
        \o <<Step("update", "d")>>

\* What the calls on a path inside d meet: without a directory at d every
\* attempt to create the entry raises
EnvAt(path, tree, env) ==
    IF path = "d/c" /\ tree["d"].type # "dir"
    THEN [env EXCEPT !.write_text = "open_fails", !.copy_fails = TRUE]
    ELSE env

\* ------------------------------------------------------------------------
\* State
\* ------------------------------------------------------------------------
VARIABLES
    pc,         \* "record", "written", "text", "read", "file", "processed";
                \* in a run of main "main", "walk", "hung", "exit";
                \* in a decode followed loop by loop "loop", "returned", "raised"
    given,      \* what Init drew: the Record, or the lines the text was built from
    flags,      \* the command-line flags
    env,        \* which system calls fail
    source,     \* the source entry
    output,     \* the entry at the output path
    cfs_file,   \* the CFSFile being written or read into
    outcome,    \* how read_cfsfile ended: status, msg, arg
    res,        \* how write_cfsfile or process_one_file ended
    read,       \* whether read_cfsfile has been called
    world,      \* a run of main: the two roots, the source tree, the output tree at the start
    out,        \* a run of main: the entry at each path of the output tree
    todo,       \* a run of main: the iterations walktree still has to make
    done,       \* a run of main: the iterations made, each with how its call ended
    status,     \* a run of main: the exit status of the process, -1 while it runs
    current_pos \* a decode followed loop by loop: current_pos of the parsing loop

filevars == <<given, env, source, output, cfs_file, outcome, read, current_pos>>
runvars == <<world, out, todo, done, status>>
vars == <<pc, given, flags, env, source, output, cfs_file, outcome, res, read,
          world, out, todo, done, status, current_pos>>

NoOutcome == [status |-> "none", msg |-> "", arg |-> <<>>]

InitRecord ==
    /\ pc = "record"
    /\ \E r \in Records : given = Given(r, <<>>, <<>>, LF, TRUE)
    /\ \E p \in Profiles : flags = Flags(FALSE, FALSE, FALSE, p)
    /\ env = EnvOK
    /\ source = RegularFile(<<>>, 0)
    /\ output = NoEntry
    /\ cfs_file = given.rec

InitText ==
    /\ pc = "text"
    /\ given \in TextInputs
    /\ flags = Flags(FALSE, TRUE, FALSE, <<FALSE, FALSE>>)
    /\ env = EnvOK
    /\ source = RegularFile(GivenText(given), 0)
    /\ output = NoEntry
    /\ cfs_file = CFSFile

InitFile ==
    /\ pc = "file"
    /\ \/ /\ given \in SourceTexts
          /\ \E pad \in Pads(GivenText(given)) : source = RegularFile(GivenText(given), pad)
          /\ \E skip \in BOOLEAN, p \in Profiles : flags = Flags(skip, TRUE, FALSE, p)
          /\ \/ env \in WriteEnvs /\ output = NoEntry
             \/ env = EnvOK /\ output \in OutputEntries
       \/ /\ given = Given(CFSFile, <<>>, <<>>, LF, TRUE)
          /\ source = RegularFile(<<"a", "n", "y">>, 0)
          /\ \E skip \in BOOLEAN, sha \in BOOLEAN, p \in Profiles :
                flags = Flags(skip, FALSE, sha, p)
          /\ \/ /\ env \in WriteEnvs \cup {[EnvOK EXCEPT !.sha256_fails = TRUE]}
                /\ output = NoEntry
             \/ env = EnvOK /\ output \in OutputEntries
       \/ /\ given = Given(CFSFile, <<>>, <<>>, LF, TRUE)
          /\ source \in {OtherEntry(S_IFLNK), OtherEntry(S_IFIFO)}
          /\ \E skip \in BOOLEAN, cfs \in BOOLEAN : flags = Flags(skip, cfs, FALSE, <<FALSE, FALSE>>)
          /\ env \in {EnvOK, [EnvOK EXCEPT !.copy_fails = TRUE]}
          /\ output \in OutputEntries
       \/ /\ given = Given(CFSFile, <<>>, <<>>, LF, TRUE)
          /\ \E t \in TimeVals :
                source = [RegularFile(<<"a", "n", "y">>, 0) EXCEPT
                             !.st.st_atime_ns = t, !.st.st_mtime_ns = t, !.st.st_ctime_ns = t]
          /\ \E p \in Profiles : flags = Flags(FALSE, FALSE, FALSE, p)
          /\ env = EnvOK
          /\ output = NoEntry
    /\ cfs_file = CFSFile

\* No run of main is under way
RunIdle ==
    /\ world = NoWorld
    /\ out = NoWorld.out
    /\ todo = <<>>
    /\ done = <<>>
    /\ status = -1

Init ==
    /\ InitRecord \/ InitText \/ InitFile
    /\ outcome = NoOutcome
    /\ res = "none"
    /\ read = FALSE
    /\ RunIdle
    /\ current_pos = 0

\* The state a call leaves, from what the call returned
Written(w) == output' = w.entry /\ res' = w.res
Decoded(r) == cfs_file' = r.cfs_file /\ outcome' = OutcomeOf(r)
Processed(p) ==
    /\ output' = p.entry
    /\ cfs_file' = p.cfs_file
    /\ outcome' = p.outcome
    /\ res' = p.res
    /\ read' = p.read

\* write_cfsfile(source_st, cfs_file, output_cfsfile_file, flags)
WriteCfsfile ==
    /\ pc = "record"
    /\ Written(write_cfsfile(cfs_file, output, flags.data_only, flags.data_and_time_only, env))
    /\ pc' = "written"
    /\ UNCHANGED <<given, flags, env, source, cfs_file, outcome, read>>
    /\ UNCHANGED <<runvars, current_pos>>

\* read_cfsfile(filepath, CFSFile()) on the file just written or on the
\* source file
ReadCfsfile ==
    /\ \/ pc = "written" /\ output.type = "reg"
       \/ pc = "text"
    /\ Decoded(read_cfsfile(IF pc = "written" THEN output.data ELSE read_text(source),
                             CFSFile))
    /\ read' = TRUE
    /\ pc' = IF pc = "written" THEN "reread" ELSE "read"
    /\ UNCHANGED <<given, flags, env, source, output, res>>
    /\ UNCHANGED <<runvars, current_pos>>

\* process_one_file(source_file, output_cfsfile_file, flags)
ProcessOneFile ==
    /\ pc = "file"
    /\ Processed(process_one_file(source, output, flags, env))
    /\ pc' = "processed"
    /\ UNCHANGED <<given, flags, env, source>>
    /\ UNCHANGED <<runvars, current_pos>>

Next == WriteCfsfile \/ ReadCfsfile \/ ProcessOneFile

Spec == Init /\ [][Next]_vars

TypeOK ==
    /\ pc \in {"record", "written", "reread", "text", "read", "file", "processed"}
    /\ res \in {"none", "True", "False", "exception", "hang"}
    /\ outcome.status \in {"none", "ok", "error", "hang"}
    /\ output.type \in {"none", "reg", "lnk", "dir", "fifo"}
    /\ read \in BOOLEAN

\* ------------------------------------------------------------------------
\* A run of the program: sys.exit(main()), and walktree one iteration of its
\* loops at a time
\* ------------------------------------------------------------------------
RunInit ==
    /\ pc = "main"
    /\ \/ /\ world \in WalkTrees
          /\ \E skip \in BOOLEAN, cfs \in BOOLEAN, sha \in BOOLEAN :
                /\ ~(cfs /\ sha)
                /\ flags = Flags(skip, cfs, sha, <<FALSE, FALSE>>)
       \/ /\ \E s \in SourceRoots, o \in OutputRoots :
                world = [NoWorld EXCEPT !.source_root = s, !.output_root = o]
          /\ \E skip \in BOOLEAN, cfs \in BOOLEAN, sha \in BOOLEAN :
                flags = Flags(skip, cfs, sha, <<FALSE, FALSE>>)
    /\ out = world.out
    /\ todo = <<>>
    /\ done = <<>>
    /\ status = -1
    /\ given = Given(CFSFile, <<>>, <<>>, LF, TRUE)
    /\ env = EnvOK
    /\ source = RegularFile(<<>>, 0)
    /\ output = NoEntry
    /\ cfs_file = CFSFile
    /\ outcome = NoOutcome
    /\ res = "none"
    /\ read = FALSE
    /\ current_pos = 0

\* The state main leaves: the process exits, or walktree starts
MainEnded(m) ==
    IF m.kind = "walktree"
    THEN pc' = "walk" /\ todo' = Plan(world) /\ status' = status
    ELSE pc' = "exit" /\ todo' = todo /\ status' = sys_exit(m)

\* main, up to the call of walktree
Main ==
    /\ pc = "main"
    /\ MainEnded(main(flags, world.source_root, world.output_root))
    /\ UNCHANGED <<flags, res, world, out, done>>
    /\ UNCHANGED filevars

\* The state one iteration leaves when its call ended with r: walktree goes
\* on to the next iteration whatever r.res is
Iterated(r) ==
    /\ out' = [out EXCEPT ![Head(todo).path] = r.entry]
    /\ res' = r.res
    /\ done' = Append(done, [op |-> Head(todo).op, path |-> Head(todo).path, res |-> r.res])
    /\ todo' = Tail(todo)
    /\ pc' = pc

\* One iteration of the loop over directories: create_directory inside try
CreateDirectory ==
    /\ pc = "walk" /\ todo # <<>> /\ Head(todo).op = "create"
    /\ Iterated(create_directory(world.dir.st, out[Head(todo).path], flags.skip_existing,
                                 world.dir.env))
    /\ UNCHANGED <<flags, world, status>>
    /\ UNCHANGED filevars

\* The state one iteration of the loop over files leaves: a call that never
\* returns leaves walktree inside this iteration
FileIterated(p) ==
    IF p.res = "hang"
    THEN pc' = "hung" /\ res' = p.res /\ UNCHANGED <<out, todo, done>>
    ELSE Iterated(p)

\* One iteration of the loop over files: process_one_file inside try
WalkFile ==
    /\ pc = "walk" /\ todo # <<>> /\ Head(todo).op = "file"
    /\ FileIterated(process_one_file(world.files[Head(todo).path].source,
                                     out[Head(todo).path], flags,
                                     EnvAt(Head(todo).path, out,
                                           world.files[Head(todo).path].env)))
    /\ UNCHANGED <<flags, world, status>>
    /\ UNCHANGED filevars

\* One iteration of the second loop over directories: update_directory
UpdateDirectory ==
    /\ pc = "walk" /\ todo # <<>> /\ Head(todo).op = "update"
    /\ Iterated(update_directory(world.dir.st, out[Head(todo).path], world.dir.env))
    /\ UNCHANGED <<flags, world, status>>
    /\ UNCHANGED filevars

\* walktree returns and main returns 0
WalkReturn ==
    /\ pc = "walk" /\ todo = <<>>
    /\ pc' = "exit"
    /\ status' = sys_exit([kind |-> "return", value |-> 0])
    /\ UNCHANGED <<flags, res, world, out, todo, done>>
    /\ UNCHANGED filevars

RunNext == Main \/ CreateDirectory \/ WalkFile \/ UpdateDirectory \/ WalkReturn

RunSpec == RunInit /\ [][RunNext]_vars

\* ------------------------------------------------------------------------
\* A decode followed step by step: the header checks, then the parsing loop
\* one iteration at a time.  current_pos is the local of that name: in the
\* legacy reader a position in the text after the header line, in the
\* current reader a position in the whole text.
\* ------------------------------------------------------------------------
LoopData ==
    IF is_old_format_cfsfile(read_text(source))
    THEN Slice(read_text(source),
               FindFrom(read_text(source), old_new_line, 0) + Len(old_new_line),
               Len(read_text(source)))
    ELSE read_text(source)

DecodeInit ==
    /\ pc = "start"
    /\ given \in TextInputs
    /\ flags = Flags(FALSE, TRUE, FALSE, <<FALSE, FALSE>>)
    /\ env = EnvOK
    /\ source = RegularFile(GivenText(given), 0)
    /\ output = NoEntry
    /\ cfs_file = CFSFile
    /\ outcome = NoOutcome
    /\ res = "none"
    /\ read = TRUE
    /\ RunIdle
    /\ current_pos = 0

\* The state a step leaves: the reader raised, left the loop and returned,
\* or is in the loop at the new position
Stepped(it) ==
    /\ cfs_file' = it.cfs_file
    /\ IF it.raised
       THEN /\ pc' = "raised"
            /\ outcome' = [status |-> "error", msg |-> it.msg, arg |-> it.arg]
            /\ current_pos' = current_pos
       ELSE IF it.pos = -1
       THEN /\ pc' = "returned"
            /\ outcome' = [status |-> "ok", msg |-> "", arg |-> <<>>]
            /\ current_pos' = current_pos
       ELSE /\ pc' = "loop"
            /\ outcome' = outcome
            /\ current_pos' = it.pos

\* read_cfsfile up to the loop of the reader it chose: the header checks of
\* old_format_fill_cfsfile_from_string and the version check of
\* old_format_fill_cfsfile_body_from_string, which enters its loop at 0, or
\* the header checks of fill_cfsfile_from_string, which enters its loop at
\* body_start
DecodeHeader ==
    /\ pc = "start"
    /\ LET data == read_text(source)
           Raised(msg, arg) == [raised |-> TRUE, msg |-> msg, arg |-> arg,
                                pos |-> 0, cfs_file |-> cfs_file]
           Entered(pos) == [raised |-> FALSE, msg |-> "", arg |-> <<>>,
                            pos |-> pos, cfs_file |-> cfs_file]
           header_end == FindFrom(data, old_new_line, 0)
           header == Slice(data, 0, header_end)
           old_version_str == Slice(header, Len(FORMAT_HEADER_PREFIX_OLD_FORMAT),
                                    Len(header))
           hdr == cfsfile_get_next_option_pair(data, 0)
       IN  Stepped(
             IF is_old_format_cfsfile(data)
             THEN IF header_end = -1 THEN Raised(MSG_NO_HEADER, <<>>)
                  ELSE IF ~StartsWith(header, FORMAT_HEADER_PREFIX_OLD_FORMAT)
                  THEN Raised(MSG_NO_HEADER, <<>>)
                  ELSE IF ~PyInt(old_version_str).ok
                  THEN Raised(MSG_VERSION_STRING, old_version_str)
                  ELSE IF PyInt(old_version_str).v \notin
                              {CFSFILE_VERSION_1, CFSFILE_VERSION_2}
                  THEN Raised(MSG_OLD_VERSION, IntToStr(PyInt(old_version_str).v))
                  ELSE Entered(0)
             ELSE IF hdr.raised THEN Raised(MSG_INVALID_STRING, <<>>)
                  ELSE IF hdr.option # FORMAT_HEADER_NAME
                  THEN Raised(MSG_NO_HEADER, <<>>)
                  ELSE IF ~PyInt(hdr.value).ok
                  THEN Raised(MSG_VERSION_STRING, hdr.value)
                  ELSE IF PyInt(hdr.value).v # CFSFILE_VERSION_3
                  THEN Raised(MSG_UNSUPPORTED_VERSION, IntToStr(PyInt(hdr.value).v))
                  ELSE Entered(hdr.pos))
    /\ UNCHANGED <<given, flags, env, source, output, res, read>>
    /\ UNCHANGED runvars

\* while current_pos < len(data) of old_format_fill_cfsfile_body_from_string:
\* the test and one iteration
LegacyIteration ==
    /\ pc = "loop"
    /\ is_old_format_cfsfile(read_text(source))
    /\ IF current_pos < Len(LoopData)
       THEN Stepped(old_format_body_iteration(LoopData, current_pos, cfs_file))
       ELSE /\ pc' = "returned"
            /\ outcome' = [status |-> "ok", msg |-> "", arg |-> <<>>]
            /\ UNCHANGED <<cfs_file, current_pos>>
    /\ UNCHANGED <<given, flags, env, source, output, res, read>>
    /\ UNCHANGED runvars

\* while True of fill_cfsfile_from_string: one iteration
CurrentIteration ==
    /\ pc = "loop"
    /\ ~is_old_format_cfsfile(read_text(source))
    /\ Stepped(fill_cfsfile_iteration(LoopData, current_pos, cfs_file))
    /\ UNCHANGED <<given, flags, env, source, output, res, read>>
    /\ UNCHANGED runvars

DecodeNext == DecodeHeader \/ LegacyIteration \/ CurrentIteration

DecodeSpec == DecodeInit /\ [][DecodeNext]_vars

\* ------------------------------------------------------------------------
\* Vocabulary of the properties.  None of it is used by the operators above:
\* a text is described by the lines it was built from (given.lines), a
\* written text by splitting it at its newlines.
\* ------------------------------------------------------------------------
IsFull(fl) == ~fl.data_only /\ ~fl.data_and_time_only
\* The attributes the profile selected by the flags writes
ProfileFields(fl) ==
    IF fl.data_only THEN {"size", "sha256"}
    ELSE IF fl.data_and_time_only THEN {"size", "mtime", "mtimensec", "sha256"}
    ELSE Fields

IndexOf(line, c) == SetMin({i \in 1..Len(line) : line[i] = c})
Has(line, c) == \E i \in 1..Len(line) : line[i] = c
IsInfix(sub, s) == \E i \in 0..(Len(s) - Len(sub)) : SubSeq(s, i + 1, i + Len(sub)) = sub
FirstInfix(sub, s) == SetMin({i \in 0..(Len(s) - Len(sub)) : SubSeq(s, i + 1, i + Len(sub)) = sub})
IsBlank(line) == \A i \in 1..Len(line) : line[i] \in {" ", "\t", "\r", "\n"}

\* The lines of a written text: the pieces that end with a newline
RECURSIVE TextLines(_)
TextLines(text) ==
    IF ~Has(text, "\n") THEN <<>>
    ELSE LET i == IndexOf(text, "\n")
         IN  <<SubSeq(text, 1, i - 1)>> \o TextLines(SubSeq(text, i + 1, Len(text)))
\* The text has a line "f=..."
HasLine(text, f) ==
    \E i \in 1..Len(TextLines(text)) : StartsWith(TextLines(text)[i], FieldChars(f) \o <<"=">>)

\* A line of the current format: name and value around the first '='
CurName(line) == Strip(SubSeq(line, 1, IndexOf(line, "=") - 1), {" ", "\t"})
CurValue(line) == SubSeq(line, IndexOf(line, "=") + 1, Len(line))
IsFieldName(name) == \E f \in Fields : name = FieldChars(f)
IsIntFieldName(name) == \E f \in IntFields : name = FieldChars(f)
CurClass(line) ==
    IF ~Has(line, "=") THEN (IF IsBlank(line) THEN "blank" ELSE "malformed")
    ELSE IF ~IsFieldName(CurName(line)) THEN "unknown"
    ELSE IF IsIntFieldName(CurName(line)) /\ ~PyInt(CurValue(line)).ok THEN "badint"
    ELSE "field"

\* A line of the legacy formats: name and value around the first ': '
OldName(line) == SubSeq(line, 1, FirstInfix(<<":", " ">>, line))
OldValue(line) == SubSeq(line, FirstInfix(<<":", " ">>, line) + 3, Len(line))
OldClass(line) ==
    IF ~IsInfix(<<":", " ">>, line) THEN (IF IsBlank(line) THEN "blank" ELSE "malformed")
    ELSE IF OldName(line) \in {c_name, c_path} THEN "path"
    ELSE IF ~IsFieldName(OldName(line)) THEN "unknown"
    ELSE IF IsIntFieldName(OldName(line)) /\ ~PyInt(OldValue(line)).ok THEN "badint"
    ELSE "field"

\* The text has the header of the current format, of a legacy format
IsCurrentText(g) == g.hdr = HDR_V3
IsLegacyText(g) == g.hdr \in {HDR_V1, HDR_V2}
IsLegacyShaped(g) ==
    Len(g.hdr) >= 15
    /\ SubSeq(g.hdr, 1, 15) = <<"C", "a", "t", "a", "l", "o", "g", "F", "S", ".", "F", "i", "l", "e", ".">>
Class(g, i) == IF IsLegacyShaped(g) THEN OldClass(g.lines[i]) ELSE CurClass(g.lines[i])
\* The field a line names, or "-"
NamedField(g, i) ==
    LET name == IF IsLegacyShaped(g)
                THEN (IF IsInfix(<<":", " ">>, g.lines[i]) THEN OldName(g.lines[i]) ELSE <<>>)
                ELSE (IF Has(g.lines[i], "=") THEN CurName(g.lines[i]) ELSE <<>>)
    IN  IF IsFieldName(name) THEN CHOOSE f \in Fields : name = FieldChars(f) ELSE "-"
NamedFields(g) == {NamedField(g, i) : i \in 1..Len(g.lines)} \ {"-"}
\* The first line that is neither a field nor blank, 0 if there is none
FirstBad(g) ==
    LET bad == {i \in 1..Len(g.lines) : Class(g, i) \notin {"field", "blank", "path"}}
    IN  IF bad = {} THEN 0 ELSE SetMin(bad)

\* ------------------------------------------------------------------------
\* Properties
\* ------------------------------------------------------------------------
HashHasNoWhitespace(r) ==
    \A i \in 1..Len(r["sha256"].s) : r["sha256"].s[i] \notin PyWhitespace
\* The Record was written by write_cfsfile and the text read into a fresh one
RoundTripDone == pc = "reread" /\ res = "True"

\* C1 as stated: the text write_cfsfile builds for a Record r (integer
\* fields, hash without whitespace) under any profile decodes, into a fresh
\* Record, to a Record equal to r on every field of the profile.
C1_RoundTripEveryField ==
    (RoundTripDone /\ HashHasNoWhitespace(given.rec))
        => /\ outcome.status = "ok"
           /\ \A f \in ProfileFields(flags) : cfs_file[f] = given.rec[f]

\* C1 amended: as above, except that an atimensec, mtimensec or ctimensec
\* whose value is 0 is absent after decoding.
C1_RoundTrip ==
    (RoundTripDone /\ HashHasNoWhitespace(given.rec))
        => /\ outcome.status = "ok"
           /\ \A f \in ProfileFields(flags) :
                cfs_file[f] = IF f \in NsecFields /\ given.rec[f] = IntV(0) THEN None
                              ELSE given.rec[f]

C1_Witness ==
    /\ RoundTripDone
    /\ IsFull(flags)
    /\ given.rec \in FullRecords
    /\ given.rec["mtime"] = IntV(-3)
    /\ given.rec["mtimensec"] = IntV(42)
    /\ given.rec["sha256"] = StrV(<<"e", "=", "f">>)
    /\ cfs_file = given.rec

\* C2: for each of atimensec, mtimensec, ctimensec, write_cfsfile writes no
\* line for a value that is exactly 0 and writes the line for any other value
\* (under the profiles that write the field); the text read into a fresh
\* Record leaves a field that was 0 absent.
C2_ZeroSuppression ==
    \A f \in NsecFields :
        /\ (pc \in {"written", "reread"} /\ res = "True")
             => /\ given.rec[f] = IntV(0) => ~HasLine(output.data, f)
                /\ (given.rec[f] \notin {None, IntV(0)} /\ f \in ProfileFields(flags))
                     => HasLine(output.data, f)
        /\ (RoundTripDone /\ given.rec[f] = IntV(0)) => cfs_file[f] = None

C2_Witness ==
    /\ RoundTripDone
    /\ IsFull(flags)
    /\ given.rec["atimensec"] = IntV(0)
    /\ given.rec["atime"] = IntV(0)
    /\ HasLine(output.data, "atime")
    /\ ~HasLine(output.data, "atimensec")
    /\ cfs_file["atimensec"] = None
    /\ cfs_file["atime"] = IntV(0)

\* What the lstat result st gives for attribute f
StatField(st, f) ==
    CASE f = "size" -> IntV(st.st_size)
      [] f = "blocks" -> IntV(st.st_blocks)
      [] f = "mode" -> IntV(st.st_mode)
      [] f = "uid" -> IntV(st.st_uid)
      [] f = "gid" -> IntV(st.st_gid)
      [] f = "atime" -> FloatV(st.st_atime_ns)
      [] f = "mtime" -> FloatV(st.st_mtime_ns)
      [] f = "ctime" -> FloatV(st.st_ctime_ns)
      [] f = "atimensec" -> IntV(st.st_atime_ns % NS_PER_SEC)
      [] f = "mtimensec" -> IntV(st.st_mtime_ns % NS_PER_SEC)
      [] f = "ctimensec" -> IntV(st.st_ctime_ns % NS_PER_SEC)
      [] f = "nlink" -> IntV(st.st_nlink)
      [] f = "blksize" -> IntV(st.st_blksize)
      [] f = "sha256" -> None

\* write_cfsfile writes no line for an attribute that is absent in the
\* Record it is given
EncodeOmitsAbsent ==
    /\ (pc \in {"written", "reread"} /\ res = "True")
         => \A f \in Fields : given.rec[f] = None => ~HasLine(output.data, f)
    /\ (pc = "processed" /\ res = "True" /\ output.type = "reg")
         => \A f \in Fields : cfs_file[f] = None => ~HasLine(output.data, f)
\* A text read into a fresh Record leaves every field it does not name absent
FreshDecodeLeavesAbsent ==
    /\ (pc = "read" /\ outcome.status = "ok")
         => \A f \in Fields \ NamedFields(given) : cfs_file[f] = None
    /\ (pc = "reread" /\ outcome.status = "ok")
         => \A f \in Fields : ~HasLine(output.data, f) => cfs_file[f] = None
\* process_one_file has read the source catalog file
IngestDecoded == pc = "processed" /\ read /\ outcome.status = "ok"

HeaderAccepted(h) ==
    \/ /\ Has(h, "=")
       /\ CurName(h) = <<"C", "a", "t", "a", "l", "o", "g", "F", "S">>
       /\ PyInt(CurValue(h)).ok
       /\ PyInt(CurValue(h)).v = 3
    \/ /\ Len(h) > 15
       /\ SubSeq(h, 1, 15) = <<"C", "a", "t", "a", "l", "o", "g", "F", "S", ".", "F", "i", "l", "e", ".">>
       /\ PyInt(SubSeq(h, 16, Len(h))).ok
       /\ PyInt(SubSeq(h, 16, Len(h))).v \in {1, 2}

\* C4: decoding succeeds only when the header is accepted; any other header
\* name, a version that is no integer, a current version other than 3 or a
\* legacy version other than 1 or 2 makes decoding fail, and the Record is
\* left as it was.
C4_VersionRejection ==
    pc = "read" =>
        /\ outcome.status = "ok" => HeaderAccepted(given.hdr)
        /\ ~HeaderAccepted(given.hdr) => (outcome.status = "error" /\ cfs_file = CFSFile)

C4_Witness ==
    /\ pc = "read"
    /\ given.hdr = <<"C", "a", "t", "a", "l", "o", "g", "F", "S", "=", "4">>
    /\ Len(given.lines) = 1
    /\ outcome.status = "error"
    /\ outcome.msg = MSG_UNSUPPORTED_VERSION
    /\ outcome.arg = <<"4">>

\* The text was read into a fresh Record
TextRead == pc = "read"
HasClass(g, c) == \E i \in 1..Len(g.lines) : Class(g, i) = c
FirstBadIs(g, c) == FirstBad(g) # 0 /\ Class(g, FirstBad(g)) = c
OnlyNonBlank(g) ==
    [g EXCEPT !.lines = SelectSeq(g.lines, LAMBDA line : ~IsBlank(line))]

\* C5: in the current format, after a valid header, a non-blank body line
\* without '=' makes decoding fail (with 'Invalid string in CatalogFS file'
\* when no earlier line is faulty), and blank lines are skipped: the text
\* decodes exactly as the same text without its blank lines.
C5_MalformedLineCurrent ==
    (TextRead /\ IsCurrentText(given)) =>
        /\ HasClass(given, "malformed") => outcome.status = "error"
        /\ FirstBadIs(given, "malformed") => outcome.msg = MSG_INVALID_STRING
        /\ LET r == read_cfsfile(GivenText(OnlyNonBlank(given)), CFSFile)
           IN  r.status = outcome.status /\ r.msg = outcome.msg /\ r.cfs_file = cfs_file

C5_Witness ==
    /\ TextRead
    /\ given.hdr = HDR_V3
    /\ Len(given.lines) = 3
    /\ Class(given, 1) = "field" /\ Class(given, 2) = "blank" /\ Class(given, 3) = "field"
    /\ outcome.status = "ok"
    /\ cfs_file["size"] = IntV(10)
    /\ cfs_file["mtime"] = IntV(-7)

\* C6 as stated: in a legacy body every unrecognized field name and every
\* non-blank line without ': ' makes decoding fail, wherever the line is,
\* also as a final line without a newline.
C6_MalformedLineLegacy ==
    (TextRead /\ IsLegacyText(given)) =>
        ((HasClass(given, "malformed") \/ HasClass(given, "unknown"))
            => outcome.status = "error")

\* C7: in the current format, after a valid header, a body line whose
\* trimmed name is none of the fourteen field names makes decoding fail,
\* whatever its value and wherever it is (with 'Unknown param name in
\* CatalogFS file' when no earlier line is faulty).
C7_UnknownFieldCurrent ==
    (TextRead /\ IsCurrentText(given)) =>
        /\ HasClass(given, "unknown") => outcome.status = "error"
        /\ FirstBadIs(given, "unknown") => outcome.msg = MSG_UNKNOWN_PARAM

C7_Witness ==
    /\ TextRead
    /\ given.hdr = HDR_V3
    /\ Len(given.lines) = 3
    /\ Class(given, 1) = "field" /\ Class(given, 2) = "unknown" /\ Class(given, 3) = "field"
    /\ outcome.status = "error"
    /\ outcome.msg = MSG_UNKNOWN_PARAM

\* The text after the delimiter of the first faulty line, as the error
\* reports it: as it stands in the current format, without surrounding
\* whitespace in a legacy format
ReportedValue(g) ==
    IF IsLegacyText(g) THEN Strip(OldValue(g.lines[FirstBad(g)]), PyWhitespace)
    ELSE CurValue(g.lines[FirstBad(g)])
\* A legacy final line 'name: ' with nothing after the separator and no
\* newline
IsCutLegacyLine(g) ==
    /\ IsLegacyText(g)
    /\ FirstBad(g) = Len(g.lines)
    /\ ~g.last
    /\ OldValue(g.lines[FirstBad(g)]) = <<>>

C9_SizeGuard ==
    [][(/\ pc = "file" /\ pc' = "processed"
        /\ flags.source_is_cfsfile
        /\ S_ISREG(source.st.st_mode)) =>
           /\ source.st.st_size > 1048576 =>
                /\ ~read'
                /\ outcome'.status = "none"
                /\ output' = output
                /\ res' # "exception" /\ res' # "hang"
                /\ output = NoEntry => res' = "False"
           /\ (source.st.st_size = 1048576 /\ output = NoEntry) => read']_vars

C9_Witness ==
    /\ pc = "processed"
    /\ flags.source_is_cfsfile
    /\ S_ISREG(source.st.st_mode)
    /\ source.st.st_size = 1048577
    /\ read_cfsfile(read_text(source), CFSFile).status = "ok"
    /\ ~read
    /\ res = "False"
    /\ output = NoEntry

\* The name a line carries before its delimiter, empty if it has none
LineName(g, i) ==
    IF IsLegacyShaped(g)
    THEN (IF IsInfix(<<":", " ">>, g.lines[i]) THEN OldName(g.lines[i]) ELSE <<>>)
    ELSE (IF Has(g.lines[i], "=") THEN CurName(g.lines[i]) ELSE <<>>)
\* Every line is a field line the decoder accepts, no name occurs twice, and
\* a text with a name or path line ends with a newline (so that the line is
\* terminated by NUL and newline wherever it stands)
IsRecordBody(g) ==
    /\ \A i \in 1..Len(g.lines) : Class(g, i) \in {"field", "path"}
    /\ g.last \/ \A i \in 1..Len(g.lines) : Class(g, i) # "path"
    /\ \A i, j \in 1..Len(g.lines) : i # j => LineName(g, i) # LineName(g, j)
LinePermutations(n) == {p \in [1..n -> 1..n] : \A i, j \in 1..n : p[i] = p[j] => i = j}
Permuted(g, p) == [g EXCEPT !.lines = [i \in 1..Len(g.lines) |-> g.lines[p[i]]]]
\* What decoding a text into a fresh Record gives: the Record, or no Record
DecodedRecord(g) ==
    LET r == read_cfsfile(GivenText(g), CFSFile)
    IN  [status |-> r.status, rec |-> IF r.status = "ok" THEN r.cfs_file ELSE CFSFile]

\* C10 as stated: for a body of field lines in which every name occurs at
\* most once, every permutation of the body lines after the header decodes
\* to the same Record, in the current format and in the legacy formats.
C10_FieldOrderIrrelevant ==
    (TextRead /\ (IsCurrentText(given) \/ IsLegacyText(given)) /\ IsRecordBody(given)) =>
        \A p \in LinePermutations(Len(given.lines)) : DecodedRecord(Permuted(given, p)) = DecodedRecord(given)

\* Every body line is 'name: value' with one of the fourteen field names
IsSharedFieldBody(g) ==
    \A i \in 1..Len(g.lines) :
        IsInfix(<<":", " ">>, g.lines[i]) /\ IsFieldName(OldName(g.lines[i]))
\* The current-format text with the same names and value texts: header
\* 'CatalogFS=3' and lines 'name=value'
AsCurrent(g) ==
    [g EXCEPT !.hdr = HDR_V3,
              !.lines = [i \in 1..Len(g.lines) |->
                            OldName(g.lines[i]) \o FORMAT_FIELD_DELIMITER \o OldValue(g.lines[i])]]

\* C11 as stated: a legacy text (header CatalogFS.File.1 or .2, lines
\* 'name: value' each ended by a newline, names among the fourteen shared
\* fields, any value texts) and the current text (header CatalogFS=3, lines
\* 'name=value') with the same names and value texts decode to the same
\* Record, or both to none.
C11_CrossVersionEquivalence ==
    (TextRead /\ IsLegacyText(given) /\ given.last /\ IsSharedFieldBody(given)) =>
        DecodedRecord(AsCurrent(given)) = DecodedRecord(given)

\* The legacy text with the other version digit in its header
OtherLegacyVersion(g) == [g EXCEPT !.hdr = IF g.hdr = HDR_V1 THEN HDR_V2 ELSE HDR_V1]
SameOutcome(r, q) ==
    /\ r.status = q.status
    /\ r.msg = q.msg
    /\ r.arg = q.arg
    /\ r.status = "ok" => r.cfs_file = q.cfs_file

\* C12 as stated: two legacy texts that differ only in the version digit of
\* the header (1 or 2) and have the same body decode to the same Record, or
\* both fail with the same error.
C12_LegacyVersionsAgree ==
    (TextRead /\ IsLegacyText(given)) =>
        LET one == read_cfsfile(GivenText(given), CFSFile)
            other == read_cfsfile(GivenText(OtherLegacyVersion(given)), CFSFile)
        IN  /\ one.status \in {"ok", "error"}
            /\ other.status \in {"ok", "error"}
            /\ SameOutcome(one, other)

\* write_cfsfile wrote the text of cfs_file to the output path: called as it
\* is, or by process_one_file (the entry is not one that Init put there)
TextWritten ==
    /\ pc \in {"written", "processed"}
    /\ res = "True"
    /\ output.type = "reg"
    /\ output \notin OutputEntries
\* The canonical order the layout is stated in
CanonicalOrder ==
    <<"size", "blocks", "mode", "uid", "gid", "atime", "mtime", "ctime",
      "atimensec", "mtimensec", "ctimensec", "nlink", "blksize", "sha256">>
CanonicalIndex(name) ==
    CHOOSE i \in 1..Len(CanonicalOrder) : FieldChars(CanonicalOrder[i]) = name
\* The text of a line before its first '='
RawName(line) == SubSeq(line, 1, IndexOf(line, "=") - 1)
\* The value text of an attribute: decimal digits of the integer (of the
\* whole seconds for a time), the hash as it is
ValueText(r, f) ==
    IF r[f].k = "str" THEN r[f].s
    ELSE IF r[f].k = "float" THEN IntToStr(PyIntOf(r[f]))
    ELSE IntToStr(r[f].n)
\* The attribute is written: it is present and no nanosecond field of 0
IsEmitted(r, f) == r[f] # None /\ ~(f \in NsecFields /\ r[f] = IntV(0))

\* C13: under the full profile the text written is exactly the header line
\* 'CatalogFS=3' and one line 'name=value' per emitted field, every line
\* ended by a newline, every field at most once, in the order size, blocks,
\* mode, uid, gid, atime, mtime, ctime, atimensec, mtimensec, ctimensec,
\* nlink, blksize, sha256.
C13_EncodeLayoutFull ==
    (TextWritten /\ IsFull(flags)) =>
        LET ls == TextLines(output.data)
        IN  /\ JoinLines(ls, LF) = output.data
            /\ Len(ls) >= 1
            /\ ls[1] = <<"C", "a", "t", "a", "l", "o", "g", "F", "S", "=", "3">>
            /\ \A i \in 2..Len(ls) : Has(ls[i], "=") /\ IsFieldName(RawName(ls[i]))
            /\ \A i, j \in 2..Len(ls) :
                 i < j => CanonicalIndex(RawName(ls[i])) < CanonicalIndex(RawName(ls[j]))
            /\ \A f \in Fields :
                 IsEmitted(cfs_file, f) <=>
                    \E i \in 2..Len(ls) :
                        ls[i] = FieldChars(f) \o <<"=">> \o ValueText(cfs_file, f)

C13_Witness ==
    /\ TextWritten
    /\ IsFull(flags)
    /\ \A f \in Fields : IsEmitted(cfs_file, f)
    /\ Len(TextLines(output.data)) = 15

\* The field names of the lines that follow the header line of a text
NamesWritten(text) ==
    {RawName(TextLines(text)[i]) : i \in 2..Len(TextLines(text))}

\* C14: under the data-only profile the text written holds, after the
\* header, no field other than size and sha256; under the data-and-time
\* profile no field other than size, mtime, mtimensec and sha256; whatever
\* fields the Record has.
C14_ProfileSubsets ==
    TextWritten =>
        /\ \A i \in 2..Len(TextLines(output.data)) : Has(TextLines(output.data)[i], "=")
        /\ flags.data_only =>
             NamesWritten(output.data) \subseteq {FieldChars("size"), FieldChars("sha256")}
        /\ flags.data_and_time_only =>
             NamesWritten(output.data) \subseteq
                {FieldChars("size"), FieldChars("mtime"), FieldChars("mtimensec"),
                 FieldChars("sha256")}

C14_Witness ==
    /\ TextWritten
    /\ ~flags.data_only /\ flags.data_and_time_only
    /\ \A f \in Fields : IsEmitted(cfs_file, f)
    /\ NamesWritten(output.data) =
          {FieldChars("size"), FieldChars("mtime"), FieldChars("mtimensec"), FieldChars("sha256")}

\* The same header and body lines with every line ended by t, the final
\* line too when l is TRUE
Terminated(g, t, l) == [g EXCEPT !.term = t, !.last = l]

\* C15: a text of the current format decodes to the same Record (or to none
\* alike) whether its lines are ended by '\n', by '\r' or by '\r\n', and
\* whether or not the final line has a terminator, a text of the header
\* alone included.
C15_TerminatorIndependence ==
    (TextRead /\ ~IsLegacyShaped(given)) =>
        \A t \in {LF, CR, CRLF}, l \in BOOLEAN :
            DecodedRecord(Terminated(given, t, l)) = DecodedRecord(given)

C15_Witness ==
    /\ TextRead
    /\ given.hdr = HDR_V3
    /\ given.term = CR
    /\ ~given.last
    /\ Len(given.lines) = 2
    /\ outcome.status = "ok"
    /\ cfs_file["size"] = IntV(10)
    /\ cfs_file["mtime"] = IntV(-7)
    /\ DecodedRecord(Terminated(given, LF, TRUE)).rec = cfs_file

\* ------------------------------------------------------------------------
\* C17  No overwrite of output files: a call of process_one_file that finds
\* any entry at the output path (regular file, symlink, directory or another
\* type) leaves that entry exactly as it was, and it returns True only when
\* the entry is a regular file or a symlink and skip_existing is set, False
\* in every other case.
\* ------------------------------------------------------------------------
C17_NoOverwrite ==
    [][(ProcessOneFile /\ output # NoEntry) =>
          /\ output' = output
          /\ res' = IF output.type \in {"reg", "lnk"} /\ flags.skip_existing
                    THEN "True" ELSE "False"]_vars

\* An existing regular output file was skipped with True and kept its text,
\* although the source was a well-formed catalog file
C17_Witness ==
    /\ pc = "processed"
    /\ flags.skip_existing
    /\ flags.source_is_cfsfile
    /\ S_ISREG(source.st.st_mode)
    /\ output = Entry("reg", <<"o", "l", "d">>)
    /\ res = "True"

\* ------------------------------------------------------------------------
\* C19  Best-effort attribute mirroring: once write_cfsfile has written the
\* record text, chmod, chown and utime are each attempted whatever the
\* earlier ones did (each takes effect exactly when that call itself does
\* not fail), and the call returns True for every subset of the three that
\* fails.
\* ------------------------------------------------------------------------
C19_BestEffortAttributes ==
    [][(ProcessOneFile /\ output = NoEntry /\ env.write_text = "ok"
            /\ output'.type = "reg") =>
          /\ res' = "True"
          /\ output'.data = write_cfsfile_data(cfs_file', flags.data_only,
                                               flags.data_and_time_only)
          /\ output'.chmod = ~env.chmod_fails
          /\ output'.chown = ~env.chown_fails
          /\ output'.utime = ~env.utime_fails]_vars

\* chmod and utime failed, chown in between was still applied, and the
\* entry was counted as listed
C19_Witness ==
    /\ pc = "processed"
    /\ env.write_text = "ok"
    /\ env.chmod_fails /\ ~env.chown_fails /\ env.utime_fails
    /\ output.type = "reg"
    /\ ~output.chmod /\ output.chown /\ ~output.utime
    /\ res = "True"

\* ------------------------------------------------------------------------
\* C18  Fatal top-level failures.  The causes present in a run are read off
\* the flags and the two roots.  A run with a cause never starts walktree
\* (no iteration is planned or made, the output tree stays as it was), its
\* exit status is not 0, and any run whose causes are all different ones
\* ends with a different status.
\* ------------------------------------------------------------------------
Causes(f, source_root, output_root) ==
    (IF f.source_is_cfsfile /\ f.sha256 THEN {"sha256 with catalog files"} ELSE {})
    \cup (IF source_root = "missing" THEN {"source root missing"} ELSE {})
    \cup (IF source_root = "unresolvable" THEN {"source root unresolvable"} ELSE {})
    \cup (IF output_root = "uncreatable" THEN {"output root un-creatable"} ELSE {})
    \cup (IF output_root \in {"created_unresolvable", "unresolvable"}
          THEN {"output root unresolvable"} ELSE {})

AllFlags ==
    { Flags(skip, cfs, sha, <<FALSE, FALSE>>) :
        skip \in BOOLEAN, cfs \in BOOLEAN, sha \in BOOLEAN }

C18_FatalFailures ==
    Causes(flags, world.source_root, world.output_root) # {} =>
        /\ pc \in {"main", "exit"}
        /\ todo = <<>> /\ done = <<>> /\ out = world.out
        /\ pc = "exit" =>
              /\ status \in 1..255
              /\ \A f \in AllFlags, s \in SourceRoots, o \in OutputRoots :
                    (/\ Causes(f, s, o) # {}
                     /\ Causes(f, s, o) \cap
                            Causes(flags, world.source_root, world.output_root) = {})
                        => sys_exit(main(f, s, o)) # status

\* The output root is missing and its mkdir raises: the process ends with
\* the status of an uncaught exception
C18_Witness ==
    /\ pc = "exit"
    /\ Causes(flags, world.source_root, world.output_root) = {"output root un-creatable"}
    /\ status = 1
    /\ done = <<>>

\* ------------------------------------------------------------------------
\* C16  Skip and continue: when an iteration of walktree over a directory
\* or a file does not end with True (the call returned False, raised, or
\* never returned), no record is written at that entry's output path (the
\* path keeps what it had, or holds an empty file), and walktree goes on
\* with the next iteration it planned; a run that reaches the end of main
\* has made every planned iteration.
\* ------------------------------------------------------------------------
NoRecordWritten(before, after) ==
    after = before \/ (after.type = "reg" /\ after.data = <<>>)

C16_SkipAndContinue ==
    /\ [][((CreateDirectory \/ WalkFile) /\ res' # "True") =>
            /\ NoRecordWritten(out[Head(todo).path], out'[Head(todo).path])
            /\ \A p \in WalkPaths \ {Head(todo).path} : out'[p] = out[p]
            /\ pc' = "walk"
            /\ todo' = Tail(todo)]_vars
    /\ []((pc = "exit" /\ status = 0) =>
            [i \in 1..Len(done) |-> Step(done[i].op, done[i].path)] = Plan(world))

\* ------------------------------------------------------------------------
\* C20  Existing output directory is not modified: once create_directory
\* has found the output directory d present with skip_existing off, d is
\* as it was before the run for the rest of the run: no entry appears
\* inside it and the update pass sets neither its mode, its owner nor its
\* times.
\* ------------------------------------------------------------------------
FoundExisting ==
    /\ pc \in {"walk", "hung", "exit"}
    /\ ~flags.skip_existing
    /\ world.out["d"].type = "dir"
    /\ done # <<>>
    /\ done[1] = [op |-> "create", path |-> "d", res |-> "False"]

C20_ExistingDirectoryUntouched ==
    FoundExisting => (out["d"] = world.out["d"] /\ out["d/c"] = world.out["d/c"])

\* ------------------------------------------------------------------------
\* C21  Ordering of the two passes: among the iterations walktree has made,
\* no update_directory call comes before a create_directory or
\* process_one_file call, and a file inside the directory d is processed
\* only after create_directory was called for d.
\* ------------------------------------------------------------------------
C21_PassOrdering ==
    /\ \A i \in 1..Len(done), j \in 1..Len(done) :
          (i < j /\ done[i].op = "update") => done[j].op \notin {"create", "file"}
    /\ \A j \in 1..Len(done) :
          (done[j].op = "file" /\ done[j].path = "d/c") =>
              \E i \in 1..(j - 1) : done[i].op = "create" /\ done[i].path = "d"
    /\ (pc = "walk" /\ todo # <<>> /\ Head(todo).op = "update") =>
          \A k \in 1..Len(todo) : todo[k].op = "update"

\* A run that created d, processed the file inside it and updated d last
C21_Witness ==
    /\ pc = "exit"
    /\ Len(done) = 5
    /\ done[1].op = "create" /\ done[1].res = "True"
    /\ done[4] = [op |-> "file", path |-> "d/c", res |-> "True"]
    /\ done[5].op = "update"
    /\ out["d"].chmod

\* ------------------------------------------------------------------------
\* C22  Time split is exact: a regular source file whose modification time
\* is T nanoseconds (T negative as well) is listed with whole seconds s
\* (mtime) and remainder n (mtimensec, absent when 0) such that
\* 0 <= n <= 999,999,999 and s * 1,000,000,000 + n = T.
\* ------------------------------------------------------------------------
Listed ==
    /\ pc = "processed"
    /\ TextWritten
    /\ ~flags.source_is_cfsfile
    /\ S_ISREG(source.st.st_mode)
    /\ ~flags.data_only

WrittenField(f) ==
    LET v == read_cfsfile(output.data, CFSFile).cfs_file[f]
    IN  IF v = None THEN 0 ELSE v.n

C22_TimeSplitExact ==
    Listed =>
        /\ WrittenField("mtimensec") \in 0..(NS_PER_SEC - 1)
        /\ WrittenField("mtime") * NS_PER_SEC + WrittenField("mtimensec")
              = source.st.st_mtime_ns

\* ------------------------------------------------------------------------
\* C23  Legacy name/path are consumed and discarded: a legacy text with a
\* name or path line whose value (embedded newlines included) ends with NUL
\* and newline decodes to exactly the Record of the same text without that
\* line, whenever the text without it decodes: the lines after it are
\* parsed as they would be, and the value is in no field.
\* ------------------------------------------------------------------------
IsPathLine(g, i) ==
    /\ OldClass(g.lines[i]) = "path"
    /\ g.lines[i][Len(g.lines[i])] = NUL
    /\ (i < Len(g.lines) \/ g.last)
WithoutLine(g, i) ==
    [g EXCEPT !.lines = SubSeq(@, 1, i - 1) \o SubSeq(@, i + 1, Len(@))]

C23_LegacyPathDiscarded ==
    (TextRead /\ IsLegacyText(given)) =>
        \A i \in 1..Len(given.lines) :
            (IsPathLine(given, i) /\ DecodedRecord(WithoutLine(given, i)).status = "ok") =>
                /\ outcome.status = "ok"
                /\ cfs_file = DecodedRecord(WithoutLine(given, i)).rec

\* 'name: a\nb' NUL newline, then a size line that was parsed
C23_Witness ==
    /\ TextRead /\ IsLegacyText(given)
    /\ Len(given.lines) >= 2
    /\ given.lines[1] = <<"n", "a", "m", "e", ":", " ", "a", "\n", "b", NUL>>
    /\ given.lines[2] = <<"s", "i", "z", "e", ":", " ", "1", "0">>
    /\ outcome.status = "ok"
    /\ cfs_file = [CFSFile EXCEPT !["size"] = IntV(10)]

\* ------------------------------------------------------------------------
\* C24  Decode terminates: for every input text the decode of read_cfsfile,
\* in the current reader or in the legacy reader, ends after finitely many
\* steps; every iteration of a parsing loop that stays in the loop leaves
\* the read position strictly greater than it found it, also when the last
\* line has no newline.  Termination is stated through its variant: the
\* position only grows and never passes the end of the text by more than the
\* terminator of a field, so the loop can go round only finitely often.
\* ------------------------------------------------------------------------
C24_DecodeTerminates ==
    /\ [][(pc = "loop" /\ pc' = "loop") => current_pos' > current_pos]_vars
    /\ [](pc = "loop" => current_pos \in 0..Len(LoopData) + Len(old_path_end))

\* ------------------------------------------------------------------------
\* C25  Migration output is always decodable: for every text, legacy or
\* current, that decodes to a Record r, the text write_cfsfile builds for r
\* under the full profile decodes in the current reader, to a Record equal
\* to r on every field except an atimensec, mtimensec or ctimensec of 0; no
\* decoded hash holds a line break, and the re-encoded text has one line for
\* the header and one for each field written.  The entry process_one_file
\* writes for a source that is a catalog file decodes as well, to a Record
\* equal in the same way to r on every field the source text sets (the
\* others it takes from the lstat of the source); it holds no '\r', so
\* reading it back leaves the text as it was written.
\* ------------------------------------------------------------------------
\* The Record read back from the text written for r under the full profile
Redecoded(r) ==
    read_cfsfile(universal_newlines(write_cfsfile_data(r, FALSE, FALSE)), CFSFile)
SameButZeroNsec(r, back) ==
    \A f \in Fields : (f \in NsecFields /\ r[f] = IntV(0)) \/ back[f] = r[f]
\* A catalog file was decoded and its Record written under the full profile
Migrated ==
    /\ TextWritten
    /\ pc = "processed"
    /\ flags.source_is_cfsfile
    /\ IsFull(flags)

C25_MigrationDecodable ==
    /\ (TextRead /\ outcome.status = "ok") =>
          /\ Redecoded(cfs_file).status = "ok"
          /\ SameButZeroNsec(cfs_file, Redecoded(cfs_file).cfs_file)
          /\ cfs_file["sha256"].k = "str" =>
                \A i \in 1..Len(cfs_file["sha256"].s) :
                    cfs_file["sha256"].s[i] \notin {"\n", "\r"}
          /\ Len(SelectSeq(write_cfsfile_data(cfs_file, FALSE, FALSE),
                           LAMBDA c : c \in {"\n", "\r"}))
                = 1 + Cardinality({f \in Fields : IsEmitted(cfs_file, f)})
    /\ Migrated =>
          LET r == read_cfsfile(read_text(source), CFSFile).cfs_file
              back == read_cfsfile(output.data, CFSFile)
          IN  /\ \A i \in 1..Len(output.data) : output.data[i] # "\r"
              /\ back.status = "ok"
              /\ \A f \in Fields :
                    \/ r[f] = None
                    \/ f \in NsecFields /\ r[f] = IntV(0)
                    \/ back.cfs_file[f] = r[f]

\* A legacy text with a hash that holds the delimiter of the current format
\* and a time, read back from the text written for its Record
C25_Witness ==
    /\ TextRead /\ IsLegacyText(given)
    /\ outcome.status = "ok"
    /\ cfs_file["sha256"] = StrV(<<"e", "=", "f">>)
    /\ cfs_file["mtime"] = IntV(-7)
    /\ Redecoded(cfs_file).status = "ok"
    /\ Redecoded(cfs_file).cfs_file = cfs_file

\* ------------------------------------------------------------------------
\* C26  Legacy path extraction strips NULs: the value
\* old_format_extract_next_path returns for a name or path field holds no
\* NUL, interior or trailing.
\* ------------------------------------------------------------------------
\* The legacy loop stands at a name or path field
PathParamEnd ==
    Find(LoopData, old_field_sep, current_pos,
         FindFrom(LoopData, old_new_line, current_pos))
AtPathField ==
    /\ pc = "loop"
    /\ is_old_format_cfsfile(read_text(source))
    /\ current_pos < Len(LoopData)
    /\ PathParamEnd # -1
    /\ Slice(LoopData, current_pos, PathParamEnd) \in {c_name, c_path}
\* The value the iteration extracts
PathValue ==
    old_format_extract_next_path(LoopData, PathParamEnd + Len(old_field_sep)).v.s
\* The extent of the field: from the value's start to the first NUL that a
\* newline follows, or to the end of the text
PathExtent ==
    LET start == PathParamEnd + Len(old_field_sep)
        ends == {i \in start + 1..Len(LoopData) - 1 :
                    LoopData[i] = NUL /\ LoopData[i + 1] = "\n"}
    IN  IF ends = {} THEN SubSeq(LoopData, start + 1, Len(LoopData))
        ELSE SubSeq(LoopData, start + 1,
                    (CHOOSE i \in ends : \A j \in ends : i <= j) - 1)

C26_PathHasNoNul ==
    AtPathField => \A i \in 1..Len(PathValue) : PathValue[i] # NUL

\* C26 amended: the value is the extent of the field without the NULs it
\* ends with; a NUL that another character follows inside the extent stays.
C26_PathTrailingNulStripped ==
    AtPathField =>
        /\ Len(PathValue) <= Len(PathExtent)
        /\ PathValue = SubSeq(PathExtent, 1, Len(PathValue))
        /\ \A i \in Len(PathValue) + 1..Len(PathExtent) : PathExtent[i] = NUL
        /\ PathValue # <<>> => PathValue[Len(PathValue)] # NUL

\* 'path: c' NUL NUL newline: both NULs are outside the value
C26_Witness ==
    /\ AtPathField
    /\ PathExtent = <<"c", NUL>>
    /\ PathValue = <<"c">>

====
